---- MODULE Spec2Model ----
(***************************************************************************)
(* The chat session of mcg (package tui): ChatModel, its Update handler    *)
(* and the commands it issues, as a state machine.                         *)
(*                                                                         *)
(* Two builds of ChatModel.Update are in the repository: the one with the  *)
(* extension commands (src/unnamed/part_003), specified by Spec, and       *)
(* src/internal/tui/chat_model.go, specified by SpecCM.  Both share the    *)
(* state, the result handlers and the tick handlers.                       *)
(*                                                                         *)
(* A Go string is modelled as a sequence of one-character strings, so      *)
(* that len, slicing, concatenation and prefixes are computed.             *)
(***************************************************************************)
EXTENDS Integers, Sequences, FiniteSets, TLC

(***************************************************************************)
(* Bounds of the model.                                                    *)
(***************************************************************************)
\* longest message log explored; a submission is only made when the log
\* has room for the messages it and the requests in flight can append
MaxLog == 4
\* most requests the user lets be in flight before waiting for a result
MaxInflight == 2
\* longest provider response (LLM completion, command output) explored
MaxRespLen == 1

(***************************************************************************)
(* String literals of the source.                                          *)
(***************************************************************************)
WelcomeText ==
    <<"W","e","l","c","o","m","e"," ","t","o"," ","M","c","G","r","a","p","h"," ","C","h","a",
      "t","!"," ","C","u","r","r","e","n","t"," ","L","L","M",":"," ","o","p","e","n","a","i",
      "\n","T","y","p","e"," ","y","o","u","r"," ","q","u","e","s","t","i","o","n","s"," ","a",
      "n","d"," ","p","r","e","s","s"," ","E","n","t","e","r"," ","t","o"," ","s","u","b","m",
      "i","t",".","\n","P","r","e","s","s"," ","A","l","t","+","E","n","t","e","r"," ","f","o",
      "r"," ","a"," ","n","e","w"," ","l","i","n","e",".","\n","T","y","p","e"," ","C","t","r",
      "l","+","C"," ","t","o"," ","q","u","i","t",".">>

WelcomeTextCM ==
    <<"W","e","l","c","o","m","e"," ","t","o"," ","M","c","G","r","a","p","h"," ","C","h","a",
      "t","!"," ","C","u","r","r","e","n","t"," ","L","L","M",":"," ","o","p","e","n","a","i",
      "\n","T","y","p","e"," ","y","o","u","r"," ","q","u","e","s","t","i","o","n","s"," ","a",
      "n","d"," ","p","r","e","s","s"," ","E","n","t","e","r"," ","t","o"," ","s","u","b","m",
      "i","t",".","\n","T","y","p","e"," ","C","t","r","l","+","C"," ","t","o"," ","q","u","i",
      "t",".">>

WelcomeBackText ==
    <<"W","e","l","c","o","m","e"," ","b","a","c","k"," ","t","o"," ","M","c","G","r","a","p",
      "h"," ","C","h","a","t","!"," ","C","u","r","r","e","n","t"," ","L","L","M",":"," ","o",
      "p","e","n","a","i","\n","C","o","n","t","i","n","u","i","n","g"," ","c","o","n","v","e",
      "r","s","a","t","i","o","n",":"," ","h","i","\n","T","y","p","e"," ","y","o","u","r"," ",
      "q","u","e","s","t","i","o","n","s"," ","a","n","d"," ","p","r","e","s","s"," ","E","n",
      "t","e","r"," ","t","o"," ","s","u","b","m","i","t","."," ","T","y","p","e"," ","C","t",
      "r","l","+","C"," ","t","o"," ","q","u","i","t",".">>

GeneratingText ==
    <<"G","e","n","e","r","a","t","i","n","g"," ","c","o","n","v","e","r","s","a","t","i","o",
      "n"," ","s","u","m","m","a","r","y",".",".",".">>

SummaryHeader ==
    <<"#"," ","C","o","n","v","e","r","s","a","t","i","o","n"," ","S","u","m","m","a","r","y",
      "\n","\n">>

ErrorPrefix ==
    <<"E","r","r","o","r",":"," ">>

ExtErrorPrefix ==
    <<"E","r","r","o","r"," ","e","x","e","c","u","t","i","n","g"," ","c","o","m","m","a","n",
      "d"," ","/">>

ResultPrefix ==
    <<"#","#","#"," ","R","e","s","u","l","t"," ","o","f"," ","/">>

SpecifyPrefix ==
    <<"P","l","e","a","s","e"," ","s","p","e","c","i","f","y"," ","a"," ","c","o","m","m","a",
      "n","d"," ","f","o","r"," ","t","h","e"," ","'">>

SpecifySuffix ==
    <<"'"," ","e","x","t","e","n","s","i","o","n","."," ","T","y","p","e"," ","/","h","e","l",
      "p"," ","f","o","r"," ","a","v","a","i","l","a","b","l","e"," ","c","o","m","m","a","n",
      "d","s",".">>

ErrDisabled ==
    <<"e","x","t","e","n","s","i","o","n","s"," ","a","r","e"," ","d","i","s","a","b","l","e",
      "d">>

ErrProvider ==
    <<"n","o"," ","r","e","s","p","o","n","s","e"," ","f","r","o","m"," ","O","p","e","n","A",
      "I">>

SummarizeCmd ==
    <<"/","s","u","m","m","a","r","i","z","e">>

\* the nil error: a value no error text equals
NoError == <<"nil">>

\* the alphabet provider responses are drawn from: Response(n) has n
\* distinct characters, so a prefix is told apart from any other slice
Alphabet == <<"a", "b", "c", "d", "e", "f", "g", "h">>

Response(n) == SubSeq(Alphabet, 1, n)

Responses == { Response(n) : n \in 0..MaxRespLen }

(***************************************************************************)
(* Library string functions, as the handlers use them.                     *)
(***************************************************************************)
Whitespace == {" ", "\n", "\t", "\r"}

RECURSIVE TrimLeft(_)
TrimLeft(s) ==
    IF s # <<>> /\ Head(s) \in Whitespace THEN TrimLeft(Tail(s)) ELSE s

RECURSIVE TrimRight(_)
TrimRight(s) ==
    IF s # <<>> /\ s[Len(s)] \in Whitespace
    THEN TrimRight(SubSeq(s, 1, Len(s) - 1))
    ELSE s

\* strings.TrimSpace
TrimSpace(s) == TrimRight(TrimLeft(s))

\* strings.HasPrefix
HasPrefix(s, p) == Len(s) >= Len(p) /\ SubSeq(s, 1, Len(p)) = p

\* index of the first c in s, 0 when there is none
IndexOf(s, c) ==
    IF \E i \in 1..Len(s) : s[i] = c
    THEN CHOOSE i \in 1..Len(s) : s[i] = c /\ \A j \in 1..(i - 1) : s[j] # c
    ELSE 0

\* strings.SplitN(s, " ", n), n >= 1
RECURSIVE SplitN(_, _)
SplitN(s, n) ==
    IF n = 1 \/ IndexOf(s, " ") = 0
    THEN <<s>>
    ELSE <<SubSeq(s, 1, IndexOf(s, " ") - 1)>>
             \o SplitN(SubSeq(s, IndexOf(s, " ") + 1, Len(s)), n - 1)

Min(a, b) == IF a < b THEN a ELSE b

\* splitArgsLoop that returns without the token being built at the end
RECURSIVE splitArgsLoopNoFlush(_, _, _, _, _)
splitArgsLoopNoFlush(s, i, args, current, inQuotes) ==
    IF i > Len(s)
    THEN args
    ELSE IF s[i] = "\"" \/ s[i] = "'"
         THEN splitArgsLoopNoFlush(s, i + 1, args, current, ~inQuotes)
         ELSE IF s[i] = " " /\ ~inQuotes
              THEN IF Len(current) > 0
                   THEN splitArgsLoopNoFlush(s, i + 1, Append(args, current), <<>>, inQuotes)
                   ELSE splitArgsLoopNoFlush(s, i + 1, args, current, inQuotes)
              ELSE splitArgsLoopNoFlush(s, i + 1, args, Append(current, s[i]), inQuotes)

\* the loop of splitArgs from character i on: args collected so far, the
\* token being built, and the inside-quotes flag
RECURSIVE splitArgsLoop(_, _, _, _, _)
splitArgsLoop(s, i, args, current, inQuotes) ==
    IF i > Len(s)
    THEN IF Len(current) > 0 THEN Append(args, current) ELSE args
    ELSE IF s[i] = "\"" \/ s[i] = "'"
         THEN splitArgsLoop(s, i + 1, args, current, ~inQuotes)
         ELSE IF s[i] = " " /\ ~inQuotes
              THEN IF Len(current) > 0
                   THEN splitArgsLoop(s, i + 1, Append(args, current), <<>>, inQuotes)
                   ELSE splitArgsLoop(s, i + 1, args, current, inQuotes)
              ELSE splitArgsLoop(s, i + 1, args, Append(current, s[i]), inQuotes)

splitArgs(s) == splitArgsLoop(s, 1, <<>>, <<>>, FALSE)

(***************************************************************************)
(* The state: the fields of ChatModel, the commands the handlers returned  *)
(* that have not delivered their message yet, and the calls made to the    *)
(* persistence collaborator.                                               *)
(***************************************************************************)
VARIABLES
    messages,        \* m.messages: the log
    waitingForResp,  \* m.waitingForResp
    typingActive,    \* m.typingActive
    thinkingDots,    \* m.thinkingDots
    quitting,        \* m.quitting
    inflight,        \* requests issued whose result event is not yet applied
    typingTicks,     \* typing ticks scheduled and not yet handled
    thinkingTicks,   \* thinking ticks scheduled and not yet handled
    dbCalls,         \* the AddMessage calls made, in order
    titleCalls,      \* the number of GenerateTitle calls made
    err,             \* m.err
    lastMsg,         \* history: the branch of Update that handled the last event
    revealTicks,     \* history: the typing ticks applied to the last message
    lastInput,       \* history: the text typed when the last event was an Enter
                     \* that got past the guards, <<>> otherwise
    lastResult,      \* history: the message the last event delivered when it
                     \* was the result of a request, NoResult otherwise
    manager,         \* the extensions Manager: enabled, extensions, commands
    startup,         \* where the process is in the life of the manager
    mgrCall,         \* history: the last call of a Manager method and what it
                     \* returned
    splitCall,       \* a call of splitArgs: its argument and, once it has
                     \* returned, the result
    entry            \* the command that started the session, the number of
                     \* messages it loaded, the tui package's extManager
                     \* reference, and whether the process has died of a panic

sessionVars ==
    <<messages, waitingForResp, typingActive, thinkingDots, quitting, inflight,
      typingTicks, thinkingTicks, dbCalls, titleCalls, err, lastMsg, revealTicks,
      lastInput, lastResult>>

registryVars == <<manager, startup, mgrCall>>

vars == <<sessionVars, registryVars, splitCall, entry>>

NoResult == [kind |-> "none"]

\* typingSpeed: 4, // Characters per tick; no handler assigns it
typingSpeed == 4

Message(content, visible, isUser, isComplete, isSystem) ==
    [Content |-> content, VisibleContent |-> visible, IsUser |-> isUser,
     IsComplete |-> isComplete, IsSystem |-> isSystem]

\* a request running off the event loop
Request(kind, prompt, extName, cmdName, args) ==
    [kind |-> kind, prompt |-> prompt, extName |-> extName, cmdName |-> cmdName,
     args |-> args]

RemoveAt(s, i) == SubSeq(s, 1, i - 1) \o SubSeq(s, i + 1, Len(s))

(***************************************************************************)
(* The extensions Manager.  The extensions map is a set of <<name,          *)
(* provider>> with one pair per name, the commands map a set of <<extension *)
(* name, command name, provider>> with one triple per pair of names.  A     *)
(* provider is "builtin" or the plugin file the entry was loaded from.      *)
(***************************************************************************)
\* the longest argument line splitArgs is called with, beside the examples
MaxArgLen == 4

\* NewManager
NewManager(enabled) == [extensions |-> {}, commands |-> {}, enabled |-> enabled]

\* Register that adds the commands to those the name already has
RegisterMerging(m, name, cmds, provider) ==
    [m EXCEPT !.extensions = {e \in @ : e[1] # name} \cup {<<name, provider>>},
              !.commands = {c \in @ : c[1] # name \/ c[2] \notin cmds}
                               \cup {<<name, cmd, provider>> : cmd \in cmds}]

\* m.extensions[name] = ext; m.commands[name] = commands, both replacing what
\* the maps held for that name
Register(m, name, cmds, provider) ==
    [m EXCEPT !.extensions = {e \in @ : e[1] # name} \cup {<<name, provider>>},
              !.commands = {c \in @ : c[1] # name}
                               \cup {<<name, cmd, provider>> : cmd \in cmds}]

\* LoadSimpleExtensions: the built-in system extension
LoadSimpleExtensions(m) == Register(m, "system", {"ls", "pwd", "read"}, "builtin")

\* the .so files of the extensions directory in the order os.ReadDir lists
\* them, with the extension each one exports
PluginFiles ==
    << [file |-> "a.so", name |-> "notes", cmds |-> {"add"}],
       [file |-> "b.so", name |-> "system", cmds |-> {"ls"}],
       [file |-> "c.so", name |-> "notes", cmds |-> {"del"}] >>

\* LoadExtension for the file PluginFiles[i]
LoadExtension(m, i) ==
    Register(m, PluginFiles[i].name, PluginFiles[i].cmds, PluginFiles[i].file)

\* the loop of LoadExtensions from entry i on: the files in loadable are
\* those plugin.Open and the lookups succeed for, the others are skipped
RECURSIVE LoadPlugins(_, _, _)
LoadPlugins(m, i, loadable) ==
    IF i > Len(PluginFiles)
    THEN m
    ELSE LoadPlugins(IF PluginFiles[i].file \in loadable THEN LoadExtension(m, i) ELSE m,
                     i + 1, loadable)

\* what LoadExtensions meets outside the process
LoadEnvironments ==
    [home : {"ok", "error"}, dir : {"exists", "created", "mkdir error", "read error"},
     loadable : SUBSET {PluginFiles[i].file : i \in 1..Len(PluginFiles)}]

\* LoadExtensionsResult with the built-in extension registered once the
\* directory has been read
LoadExtensionsResultBuiltinLast(m, env) ==
    IF ~m.enabled
    THEN [manager |-> m, err |-> NoError]
    ELSE IF env.home = "error"
         THEN [manager |-> m, err |-> <<"failed to get home directory">>]
         ELSE IF env.dir = "mkdir error"
              THEN [manager |-> m, err |-> <<"failed to create extensions directory">>]
              ELSE IF env.dir = "created"
                   THEN [manager |-> LoadSimpleExtensions(m), err |-> NoError]
                   ELSE IF env.dir = "read error"
                        THEN [manager |-> m,
                              err |-> <<"failed to read extensions directory">>]
                        ELSE [manager |-> LoadPlugins(LoadSimpleExtensions(m), 1,
                                                      env.loadable),
                              err |-> NoError]

\* LoadExtensionsResult with the built-in extension registered before the
\* enabled flag is looked at
LoadExtensionsResultBuiltinFirst(m, env) ==
    IF ~m.enabled
    THEN [manager |-> LoadSimpleExtensions(m), err |-> NoError]
    ELSE [manager |-> LoadPlugins(LoadSimpleExtensions(m), 1, env.loadable),
          err |-> NoError]

\* LoadExtensions: the manager it leaves and the error it returns
LoadExtensionsResult(m, env) ==
    IF ~m.enabled
    THEN [manager |-> m, err |-> NoError]
    ELSE IF env.home = "error"
         THEN [manager |-> LoadSimpleExtensions(m),
               err |-> <<"failed to get home directory">>]
         ELSE IF env.dir = "mkdir error"
              THEN [manager |-> LoadSimpleExtensions(m),
                    err |-> <<"failed to create extensions directory">>]
              ELSE IF env.dir = "created"
                   THEN [manager |-> LoadSimpleExtensions(m), err |-> NoError]
                   ELSE IF env.dir = "read error"
                        THEN [manager |-> LoadSimpleExtensions(m),
                              err |-> <<"failed to read extensions directory">>]
                        ELSE [manager |-> LoadPlugins(LoadSimpleExtensions(m), 1,
                                                      env.loadable),
                              err |-> NoError]

\* what a command's Execute may return
CommandOutcomes ==
    { [result |-> "output", err |-> NoError],
      [result |-> "", err |-> <<"command failed">>] }

\* ExecuteCommand: what it returns and the Execute calls it made, as
\* <<extension name, command name, provider, args>>
ExecuteCommandResult(m, extName, cmdName, args, outcome) ==
    IF ~m.enabled
    THEN [result |-> "", err |-> <<"extensions are disabled">>, executed |-> <<>>]
    ELSE IF ~\E e \in m.extensions : e[1] = extName
         THEN [result |-> "", err |-> <<"extension '%s' not found", extName>>,
               executed |-> <<>>]
         ELSE IF ~\E c \in m.commands : c[1] = extName /\ c[2] = cmdName
              THEN [result |-> "",
                    err |-> <<"command '%s' not found in extension '%s'", cmdName, extName>>,
                    executed |-> <<>>]
              ELSE LET cmd == CHOOSE c \in m.commands : c[1] = extName /\ c[2] = cmdName
                   IN  [result |-> outcome.result, err |-> outcome.err,
                        executed |-> << <<cmd[1], cmd[2], cmd[3], args>> >>]

(***************************************************************************)
(* The adapter: values supplied by a plugin, reached through reflection.    *)
(* A value is described by the methods it has; a method by the types of     *)
(* its parameters and the results a call returns.                           *)
(***************************************************************************)
\* a result of a method: its kind, whether it is nil, the text of a string
\* or of an error, the elements of a slice
Value(kind, isNil, str, items) ==
    [kind |-> kind, isNil |-> isNil, str |-> str, items |-> items]

StringValue(str) == Value("string", FALSE, str, <<>>)

IntValue == Value("int", FALSE, "", <<>>)

NilError == Value("error", TRUE, "", <<>>)

AnError == Value("error", FALSE, "plugin failed", <<>>)

\* a non-nil pointer to a type that is not an error
PointerValue == Value("pointer", FALSE, "", <<>>)

SliceValue(items) == Value("slice", FALSE, "", items)

\* the nil interface callExtensionMethodWithArgs returns for a method
\* without results
NilValue == Value("nil", TRUE, "", <<>>)

\* the kinds reflect.Value.IsNil accepts
NillableKinds == {"error", "pointer", "slice", "nil"}

Method(params, results) == [declared |-> TRUE, params |-> params, results |-> results]

NoMethod == [declared |-> FALSE, params |-> <<>>, results |-> <<>>]

\* what an adapter operation ends with: a value, an error, or a panic
Returned(value) == [value |-> value, err |-> NoError, panic |-> FALSE]

Failed(error) == [value |-> NilValue, err |-> error, panic |-> FALSE]

Panicked == [value |-> NilValue, err |-> NoError, panic |-> TRUE]

\* callExtensionMethodWithArgs(value, methodName, args), args given by their
\* types.  MethodByName panics on the zero Value of a nil interface, Call on
\* arguments that do not fit the parameters, IsNil on a kind that has no
\* nil, and the assertion .(error) on a value that is not an error.
callExtensionMethodWithArgs(value, methodName, args) ==
    IF value.isNil
    THEN Panicked
    ELSE IF ~value[methodName].declared
         THEN Failed(<<"method %s not found", methodName>>)
         ELSE IF value[methodName].params # args
              THEN Panicked
              ELSE LET resultVals == value[methodName].results
                   IN  IF Len(resultVals) >= 2 /\ resultVals[2].kind \notin NillableKinds
                       THEN Panicked
                       ELSE IF Len(resultVals) >= 2 /\ ~resultVals[2].isNil
                            THEN IF resultVals[2].kind = "error"
                                 THEN Failed(<<resultVals[2].str>>)
                                 ELSE Panicked
                            ELSE IF Len(resultVals) >= 1
                                 THEN Returned(resultVals[1])
                                 ELSE Returned(NilValue)

callExtensionMethod(value, methodName) ==
    callExtensionMethodWithArgs(value, methodName, <<>>)

\* convertToInterfaceSlice: the elements of a slice, nil for anything else
convertToInterfaceSlice(value) == IF value.kind = "slice" THEN value.items ELSE <<>>

\* a provider or command value with the four methods the adapter looks for
Plugin(name, description, commands, execute) ==
    [isNil |-> FALSE, Name |-> name, Description |-> description,
     Commands |-> commands, Execute |-> execute]

\* a nil element of the slice Commands returned
NilHandle ==
    [isNil |-> TRUE, Name |-> NoMethod, Description |-> NoMethod,
     Commands |-> NoMethod, Execute |-> NoMethod]

\* a command handle with all three methods as the Command interface has them
GoodHandle(name) ==
    Plugin(Method(<<>>, <<StringValue(name)>>), Method(<<>>, <<StringValue("d")>>),
           NoMethod, Method(<<"[]string">>, <<StringValue("output"), NilError>>))

\* a provider with all three methods as the Extension interface has them
GoodProvider(name, handles) ==
    Plugin(Method(<<>>, <<StringValue(name)>>), Method(<<>>, <<StringValue("d")>>),
           Method(<<>>, <<SliceValue(handles)>>), NoMethod)

\* a .so file: whether plugin.Open succeeds, whether it exports the symbol
\* Extension, and the value of the symbol
Bundle(file, opens, exports, value) ==
    [file |-> file, opens |-> opens, exports |-> exports, value |-> value]

\* the bundles the loader is tried on: one as the interfaces ask, and others
\* that differ from it in one capability
Bundles ==
    { Bundle("f01", TRUE, TRUE, GoodProvider("notes", <<GoodHandle("add")>>)),
      Bundle("f02", FALSE, FALSE, GoodProvider("notes", <<>>)),
      Bundle("f03", TRUE, FALSE, GoodProvider("notes", <<>>)),
      Bundle("f04", TRUE, TRUE,
             [GoodProvider("notes", <<>>) EXCEPT !.Name = NoMethod]),
      Bundle("f05", TRUE, TRUE,
             [GoodProvider("notes", <<>>) EXCEPT !.Name = Method(<<>>, <<IntValue>>)]),
      Bundle("f06", TRUE, TRUE,
             [GoodProvider("notes", <<>>)
                  EXCEPT !.Name = Method(<<"string">>, <<StringValue("notes")>>)]),
      Bundle("f07", TRUE, TRUE,
             [GoodProvider("notes", <<>>) EXCEPT !.Description = NoMethod]),
      Bundle("f08", TRUE, TRUE,
             [GoodProvider("notes", <<>>)
                  EXCEPT !.Description = Method(<<>>, <<IntValue>>)]),
      Bundle("f09", TRUE, TRUE,
             [GoodProvider("notes", <<>>) EXCEPT !.Commands = NoMethod]),
      Bundle("f10", TRUE, TRUE,
             [GoodProvider("notes", <<>>)
                  EXCEPT !.Commands = Method(<<>>, <<StringValue("add")>>)]),
      Bundle("f11", TRUE, TRUE,
             [GoodProvider("notes", <<>>)
                  EXCEPT !.Commands = Method(<<>>, <<SliceValue(<<>>), AnError>>)]),
      Bundle("f12", TRUE, TRUE,
             [GoodProvider("notes", <<>>)
                  EXCEPT !.Name = Method(<<>>, <<StringValue("notes"), IntValue>>)]),
      Bundle("f13", TRUE, TRUE,
             [GoodProvider("notes", <<>>)
                  EXCEPT !.Name = Method(<<>>, <<StringValue("notes"), PointerValue>>)]),
      Bundle("f14", TRUE, TRUE,
             GoodProvider("notes",
                          << GoodHandle("add"),
                             [GoodHandle("bad") EXCEPT !.Name = NoMethod],
                             [GoodHandle("odd")
                                  EXCEPT !.Description = Method(<<>>, <<IntValue>>)],
                             GoodHandle("del") >>)),
      Bundle("f15", TRUE, TRUE,
             GoodProvider("notes",
                          << [GoodHandle("add") EXCEPT !.Execute = NoMethod] >>)),
      Bundle("f16", TRUE, TRUE, GoodProvider("notes", <<NilHandle>>)),
      Bundle("f17", TRUE, TRUE,
             GoodProvider("notes",
                          << [GoodHandle("add")
                                  EXCEPT !.Execute =
                                      Method(<<"int">>, <<StringValue("output"), NilError>>)] >>)),
      Bundle("f18", TRUE, TRUE,
             GoodProvider("notes",
                          << [GoodHandle("add")
                                  EXCEPT !.Execute =
                                      Method(<<"[]string">>, <<IntValue, NilError>>)] >>)),
      Bundle("f19", TRUE, TRUE,
             GoodProvider("notes",
                          << [GoodHandle("add")
                                  EXCEPT !.Execute =
                                      Method(<<"[]string">>, <<StringValue(""), AnError>>)] >>)),
      Bundle("f20", TRUE, TRUE, GoodProvider("system", <<GoodHandle("ls")>>)) }

\* the loop over the command handles in LoadExtension and in
\* ExtensionWrapper.Commands, from handle i on: the names of the handles
\* wrapped so far, and whether a call panicked
RECURSIVE WrapCommands(_, _, _)
WrapCommands(cmdSlice, i, names) ==
    IF i > Len(cmdSlice)
    THEN [names |-> names, panic |-> FALSE]
    ELSE LET cmdName == callExtensionMethod(cmdSlice[i], "Name")
             cmdDesc == callExtensionMethod(cmdSlice[i], "Description")
         IN  IF cmdName.panic
             THEN [names |-> names, panic |-> TRUE]
             ELSE IF cmdName.err # NoError \/ cmdName.value.kind # "string"
                  THEN WrapCommands(cmdSlice, i + 1, names)
                  ELSE IF cmdDesc.panic
                       THEN [names |-> names, panic |-> TRUE]
                       ELSE IF cmdDesc.err # NoError \/ cmdDesc.value.kind # "string"
                            THEN WrapCommands(cmdSlice, i + 1, names)
                            ELSE WrapCommands(cmdSlice, i + 1,
                                              names \cup {cmdName.value.str})

\* LoadExtension(path) for the bundle at path: the manager it leaves, the
\* error it returns, and whether it panicked
LoadExtensionResult(m, bundle) ==
    LET extName == callExtensionMethod(bundle.value, "Name")
        extDesc == callExtensionMethod(bundle.value, "Description")
        extCmds == callExtensionMethod(bundle.value, "Commands")
        wrapped == WrapCommands(convertToInterfaceSlice(extCmds.value), 1, {})
        Stop(error, panicked) == [manager |-> m, err |-> error, panic |-> panicked]
    IN  IF ~bundle.opens
        THEN Stop(<<"failed to open plugin">>, FALSE)
        ELSE IF ~bundle.exports
        THEN Stop(<<"plugin does not export 'Extension' symbol">>, FALSE)
        ELSE IF extName.panic
        THEN Stop(NoError, TRUE)
        ELSE IF extName.err # NoError
        THEN Stop(<<"extension doesn't implement Name()">>, FALSE)
        ELSE IF extName.value.kind # "string"
        THEN Stop(<<"extension's Name() doesn't return a string">>, FALSE)
        ELSE IF extDesc.panic
        THEN Stop(NoError, TRUE)
        ELSE IF extDesc.err # NoError
        THEN Stop(<<"extension doesn't implement Description()">>, FALSE)
        ELSE IF extDesc.value.kind # "string"
        THEN Stop(<<"extension's Description() doesn't return a string">>, FALSE)
        ELSE IF extCmds.panic
        THEN Stop(NoError, TRUE)
        ELSE IF extCmds.err # NoError
        THEN Stop(<<"extension doesn't implement Commands()">>, FALSE)
        ELSE IF wrapped.panic
        THEN Stop(NoError, TRUE)
        ELSE [manager |-> Register(m, extName.value.str, wrapped.names, bundle.file),
              err |-> NoError, panic |-> FALSE]

\* the handle a CommandWrapper of the bundle holds for a command name: the
\* last handle of that name the loop wrapped
WrappedHandle(bundle, cmdName) ==
    LET cmdSlice == convertToInterfaceSlice(
                        callExtensionMethod(bundle.value, "Commands").value)
        Wrapped(i) == /\ callExtensionMethod(cmdSlice[i], "Name").value.kind = "string"
                      /\ callExtensionMethod(cmdSlice[i], "Name").value.str = cmdName
                      /\ callExtensionMethod(cmdSlice[i], "Description").err = NoError
                      /\ callExtensionMethod(cmdSlice[i], "Description").value.kind
                             = "string"
    IN  cmdSlice[CHOOSE i \in 1..Len(cmdSlice) :
                     Wrapped(i) /\ \A j \in (i + 1)..Len(cmdSlice) : ~Wrapped(j)]

\* CommandWrapper.Execute(args) on a handle
CommandWrapperExecute(handle) ==
    LET result == callExtensionMethodWithArgs(handle, "Execute", <<"[]string">>)
    IN  IF result.panic
        THEN [result |-> "", err |-> NoError, panic |-> TRUE]
        ELSE IF result.err # NoError
             THEN [result |-> "", err |-> result.err, panic |-> FALSE]
             ELSE IF result.value.kind # "string"
                  THEN [result |-> "",
                        err |-> <<"command's Execute() doesn't return a string">>,
                        panic |-> FALSE]
                  ELSE [result |-> result.value.str, err |-> NoError, panic |-> FALSE]

\* no Manager method has been called
NoCall == [op |-> "none"]

\* no call of splitArgs has been made
NoSplit == [state |-> "none", s |-> <<>>, args |-> <<>>]

\* the manager of a running session: root.go created it enabled and
\* LoadExtensions found no plugin
RegistryServing ==
    /\ manager = LoadSimpleExtensions(NewManager(TRUE))
    /\ startup = "serving"
    /\ mgrCall = NoCall

(***************************************************************************)
(* Start of a session: chatCmd builds loadedMessages (none for a fresh     *)
(* session), NewChatModel builds the model, and Init schedules the first   *)
(* thinking tick.                                                          *)
(***************************************************************************)
\* the stored conversations a session is continued from: sequences of
\* <<role, content>>
StoredConversations ==
    { << <<"user", <<"h", "i">> >> >>,
      << <<"user", <<"h", "i">> >>, <<"assistant", Response(MaxRespLen)>> >> }

\* chatCmd with --continue restoring the stored messages with nothing
\* visible, to be revealed again
LoadedMessagesReplayed(stored) ==
    <<Message(WelcomeBackText, WelcomeBackText, FALSE, TRUE, FALSE)>>
        \o [i \in 1..Len(stored) |->
               Message(stored[i][2], <<>>, stored[i][1] = "user", FALSE, FALSE)]

\* chatCmd with --continue: the welcome-back message, then every stored
\* message, complete
LoadedMessages(stored) ==
    <<Message(WelcomeBackText, WelcomeBackText, FALSE, TRUE, FALSE)>>
        \o [i \in 1..Len(stored) |->
               Message(stored[i][2], stored[i][2], stored[i][1] = "user", TRUE, FALSE)]

\* NewChatModel: the messages of the new model
NewChatModel(loadedMessages, welcome) ==
    IF Len(loadedMessages) > 0
    THEN loadedMessages
    ELSE <<Message(welcome, welcome, FALSE, TRUE, FALSE)>>

\* no session has been started
NoEntry == [command |-> "none", loaded |-> 0, extManager |-> "nil", panicked |-> FALSE]

\* chatCmd: StartChat with the loaded messages; the tui package's extManager
\* is left as declared, nil
chatCmd(loadedMessages) ==
    [command |-> IF Len(loadedMessages) > 0 THEN "chat --continue" ELSE "chat",
     loaded |-> Len(loadedMessages), extManager |-> "nil", panicked |-> FALSE]

\* askCmd with --interactive: SetExtensionManager, then StartChat with no
\* loaded messages
askCmd ==
    [command |-> "ask -i", loaded |-> 0, extManager |-> "set", panicked |-> FALSE]

\* the commands that can have started a session with these loaded messages
EntryPoints(loadedMessages) ==
    IF Len(loadedMessages) > 0
    THEN {chatCmd(loadedMessages)}
    ELSE {chatCmd(loadedMessages), askCmd}

\* a step of a running session: the process is alive, and the step leaves
\* the registry and the entry alone
SessionStep ==
    /\ ~entry.panicked
    /\ UNCHANGED <<registryVars, splitCall, entry>>

InitWith(welcome) ==
    /\ \E loaded \in {<<>>} \cup { LoadedMessages(st) : st \in StoredConversations } :
           /\ messages = NewChatModel(loaded, welcome)
           /\ entry \in EntryPoints(loaded)
    /\ waitingForResp = FALSE
    /\ typingActive = FALSE
    /\ thinkingDots = 1
    /\ quitting = FALSE
    /\ inflight = <<>>
    /\ typingTicks = 0
    /\ thinkingTicks = 1
    /\ dbCalls = <<>>
    /\ titleCalls = 0
    /\ err = NoError
    /\ lastMsg = "Init"
    /\ revealTicks = 0
    /\ lastInput = <<>>
    /\ lastResult = NoResult
    /\ RegistryServing
    /\ splitCall = NoSplit

Init == InitWith(WelcomeText)

InitCM == InitWith(WelcomeTextCM)

(***************************************************************************)
(* The events of a session.  Each action is one call of Update; the        *)
(* commands it returns are recorded in inflight, typingTicks and           *)
(* thinkingTicks.  After a quit key the program ends: no event is handled. *)
(***************************************************************************)
\* what the user has typed when Enter is pressed (textarea.Value())
Inputs ==
    { <<" ">>,
      <<" ", "h", "i", " ">>,
      SummarizeCmd,
      <<"/", "h", "e", "l", "p">>,
      <<"/", "s", "y", "s">>,
      <<"/", "s", "y", "s", " ", "l", "s", " ", "'", "a", " ", "b", "'", " ", "c">> }

\* what the user may type in the build without extension commands
InputsCM ==
    { <<" ">>, <<" ", "h", "i", " ">>, SummarizeCmd }

\* the user submits only while the log has room for n more messages beside
\* the one each request in flight may still append
Room(n) == Len(messages) + Len(inflight) + n <= MaxLog

MayIssue == Len(inflight) < MaxInflight

\* getSummary: the conversation text the summary prompt is built around,
\* from the log as it is when the command is returned
RECURSIVE History(_, _)
History(log, i) ==
    IF i > Len(log)
    THEN <<>>
    ELSE (IF log[i].IsSystem \/ i = Len(log)
          THEN <<>>
          ELSE (IF log[i].IsUser
                THEN <<"U", "s", "e", "r", ":", " ">>
                ELSE <<"A", "s", "s", "i", "s", "t", "a", "n", "t", ":", " ">>)
               \o log[i].Content \o <<"\n", "\n">>)
         \o History(log, i + 1)

\* Enter pressed while a response is awaited (or, in the build that checks
\* it, while a message is being revealed), or with nothing but white space
\* typed: the handler changes no field
EnterIgnored(branch) ==
    /\ lastMsg' = branch
    /\ lastResult' = NoResult
    /\ UNCHANGED <<messages, waitingForResp, typingActive, thinkingDots,
                   quitting, inflight, typingTicks, thinkingTicks, dbCalls, titleCalls, err,
                   revealTicks>>

\* input == "/summarize"
EnterSummarize ==
    /\ Room(2) /\ MayIssue
    /\ waitingForResp' = TRUE
    /\ messages' = Append(messages,
                          Message(GeneratingText, GeneratingText, FALSE, TRUE, TRUE))
    /\ inflight' = Append(inflight,
                          Request("summary", History(messages', 1), <<>>, <<>>, <<>>))
    /\ lastMsg' = "KeyEnter:summarize"
    /\ lastResult' = NoResult
    /\ revealTicks' = 0
    /\ UNCHANGED <<typingActive, thinkingDots, quitting, typingTicks,
                   thinkingTicks, dbCalls, titleCalls, err>>

\* extName == "help": return m, m.handleHelp()
EnterHelp ==
    /\ Room(1) /\ MayIssue
    /\ inflight' = Append(inflight, Request("help", <<>>, <<>>, <<>>, <<>>))
    /\ lastMsg' = "KeyEnter:help"
    /\ lastResult' = NoResult
    /\ UNCHANGED <<messages, waitingForResp, typingActive, thinkingDots, quitting,
                   typingTicks, thinkingTicks, dbCalls, titleCalls, err, revealTicks>>

\* len(parts) >= 2: return m, m.executeExtensionCommand(extName, cmdName, args)
EnterExtension(parts) ==
    /\ Room(1) /\ MayIssue
    /\ inflight' = Append(inflight,
                          Request("ext", <<>>, parts[1], parts[2],
                                  IF Len(parts) > 2 THEN splitArgs(parts[3]) ELSE <<>>))
    /\ lastMsg' = "KeyEnter:extension"
    /\ lastResult' = NoResult
    /\ UNCHANGED <<messages, waitingForResp, typingActive, thinkingDots, quitting,
                   typingTicks, thinkingTicks, dbCalls, titleCalls, err, revealTicks>>

\* an extension name without a command
EnterMissingCommand(extName) ==
    /\ Room(1)
    /\ messages' = Append(messages,
                          Message(SpecifyPrefix \o extName \o SpecifySuffix,
                                  SpecifyPrefix \o extName \o SpecifySuffix,
                                  FALSE, TRUE, TRUE))
    /\ lastMsg' = "KeyEnter:missingCommand"
    /\ lastResult' = NoResult
    /\ revealTicks' = 0
    /\ UNCHANGED <<waitingForResp, typingActive, thinkingDots, quitting,
                   inflight, typingTicks, thinkingTicks, dbCalls, titleCalls, err>>

\* what a call of the persistence collaborator returns as its error
ErrDatabase == <<"l", "o", "c", "k", "e", "d">>

DbOutcomes == {NoError, ErrDatabase}

SaveFailedPrefix ==
    <<"f","a","i","l","e","d"," ","t","o"," ","s","a","v","e"," ","m","e","s","s","a","g",
      "e",":"," ">>

TitleFailedPrefix ==
    <<"f","a","i","l","e","d"," ","t","o"," ","g","e","n","e","r","a","t","e"," ","t","i",
      "t","l","e",":"," ">>

\* m.err after AddMessage returned addErr and, when GenerateTitle was started,
\* after its goroutine got titleErr; seen tells whether the goroutine's
\* write came before Update returned the model
ErrAfterSave(addErr, titled, titleErr, seen) ==
    IF titled /\ titleErr # NoError /\ seen
    THEN TitleFailedPrefix \o titleErr
    ELSE IF addErr # NoError
         THEN SaveFailedPrefix \o addErr
         ELSE err

\* EnterChat with waitingForResp left as it is
EnterChatNotWaiting(input) ==
    /\ Room(2) /\ MayIssue
    /\ messages' = Append(messages, Message(input, input, TRUE, TRUE, FALSE))
    /\ dbCalls' = Append(dbCalls, <<"user", input>>)
    /\ titleCalls' = IF Len(messages') = 2 THEN titleCalls + 1 ELSE titleCalls
    /\ \E addErr \in DbOutcomes, titleErr \in DbOutcomes, seen \in BOOLEAN :
           err' = ErrAfterSave(addErr, Len(messages') = 2, titleErr, seen)
    /\ inflight' = Append(inflight, Request("llm", input, <<>>, <<>>, <<>>))
    /\ lastMsg' = "KeyEnter:chat"
    /\ lastResult' = NoResult
    /\ revealTicks' = 0
    /\ UNCHANGED <<waitingForResp, typingActive, thinkingDots, quitting, typingTicks,
                   thinkingTicks>>

\* the normal message flow given up when AddMessage fails: the user message
\* stays in the log and no request is issued
EnterChatStoppingOnSaveError(input) ==
    /\ Room(2) /\ MayIssue
    /\ messages' = Append(messages, Message(input, input, TRUE, TRUE, FALSE))
    /\ dbCalls' = Append(dbCalls, <<"user", input>>)
    /\ titleCalls' = IF Len(messages') = 2 THEN titleCalls + 1 ELSE titleCalls
    /\ \E addErr \in DbOutcomes, titleErr \in DbOutcomes, seen \in BOOLEAN :
           /\ err' = ErrAfterSave(addErr, Len(messages') = 2, titleErr, seen)
           /\ waitingForResp' = (addErr = NoError \/ waitingForResp)
           /\ inflight' = IF addErr = NoError
                          THEN Append(inflight, Request("llm", input, <<>>, <<>>, <<>>))
                          ELSE inflight
    /\ lastMsg' = "KeyEnter:chat"
    /\ lastResult' = NoResult
    /\ revealTicks' = 0
    /\ UNCHANGED <<typingActive, thinkingDots, quitting, typingTicks,
                   thinkingTicks>>

\* the normal message flow: the user message, AddMessage, GenerateTitle for
\* the first message, and the LLM request.  An error of AddMessage or of
\* GenerateTitle is stored in m.err, which no handler reads.  GenerateTitle
\* runs in a goroutine that writes m.err of the copy Update works on: the
\* write is in the model returned only if it comes before the return.
EnterChat(input) ==
    /\ Room(2) /\ MayIssue
    /\ messages' = Append(messages, Message(input, input, TRUE, TRUE, FALSE))
    /\ dbCalls' = Append(dbCalls, <<"user", input>>)
    /\ titleCalls' = IF Len(messages') = 2 THEN titleCalls + 1 ELSE titleCalls
    /\ \E addErr \in DbOutcomes, titleErr \in DbOutcomes, seen \in BOOLEAN :
           err' = ErrAfterSave(addErr, Len(messages') = 2, titleErr, seen)
    /\ waitingForResp' = TRUE
    /\ inflight' = Append(inflight, Request("llm", input, <<>>, <<>>, <<>>))
    /\ lastMsg' = "KeyEnter:chat"
    /\ lastResult' = NoResult
    /\ revealTicks' = 0
    /\ UNCHANGED <<typingActive, thinkingDots, quitting, typingTicks,
                   thinkingTicks>>

\* the slash-command branch of the build with extension commands
EnterCommand(input) ==
    LET parts == SplitN(Tail(input), 3)
    IN  IF parts[1] = <<"h", "e", "l", "p">>
        THEN EnterHelp
        ELSE IF Len(parts) >= 2
             THEN EnterExtension(parts)
             ELSE EnterMissingCommand(parts[1])

\* KeyEnter without the slash-command branch: every input but /summarize
\* takes the normal message flow
KeyEnterCommandsAsChat(value) ==
    /\ ~quitting
    /\ LET input == TrimSpace(value)
       IN  IF ~(~waitingForResp /\ ~typingActive)
           THEN EnterIgnored("KeyEnter:busy")
           ELSE IF input = <<>>
                THEN EnterIgnored("KeyEnter:empty")
                ELSE IF input = SummarizeCmd
                     THEN EnterSummarize
                     ELSE EnterChat(input)
    /\ lastInput' = IF lastMsg' \in {"KeyEnter:busy", "KeyEnter:empty"}
                    THEN <<>> ELSE value

\* KeyEnter with the guard reduced to !m.typingActive
KeyEnterTypingGuardOnly(value) ==
    /\ ~quitting
    /\ LET input == TrimSpace(value)
       IN  IF typingActive
           THEN EnterIgnored("KeyEnter:busy")
           ELSE IF input = <<>>
                THEN EnterIgnored("KeyEnter:empty")
                ELSE IF input = SummarizeCmd
                     THEN EnterSummarize
                     ELSE IF HasPrefix(input, <<"/">>) /\ Len(input) > 1
                          THEN EnterCommand(input)
                          ELSE EnterChat(input)
    /\ lastInput' = IF lastMsg' \in {"KeyEnter:busy", "KeyEnter:empty"}
                    THEN <<>> ELSE value

\* case tea.KeyEnter of the build with extension commands, Alt not pressed
KeyEnter(value) ==
    /\ ~quitting
    /\ LET input == TrimSpace(value)
       IN  IF ~(~waitingForResp /\ ~typingActive)
           THEN EnterIgnored("KeyEnter:busy")
           ELSE IF input = <<>>
                THEN EnterIgnored("KeyEnter:empty")
                ELSE IF input = SummarizeCmd
                     THEN EnterSummarize
                     ELSE IF HasPrefix(input, <<"/">>) /\ Len(input) > 1
                          THEN EnterCommand(input)
                          ELSE EnterChat(input)
    /\ lastInput' = IF lastMsg' \in {"KeyEnter:busy", "KeyEnter:empty"}
                    THEN <<>> ELSE value

\* case tea.KeyEnter of internal/tui/chat_model.go
KeyEnterCM(value) ==
    /\ ~quitting
    /\ LET input == TrimSpace(value)
       IN  IF ~(~waitingForResp)
           THEN EnterIgnored("KeyEnter:busy")
           ELSE IF input = <<>>
                THEN EnterIgnored("KeyEnter:empty")
                ELSE IF input = SummarizeCmd
                     THEN EnterSummarize
                     ELSE EnterChat(input)
    /\ lastInput' = IF lastMsg' \in {"KeyEnter:busy", "KeyEnter:empty"}
                    THEN <<>> ELSE value

\* Alt+Enter: a newline goes into the textarea, which is not part of the state
KeyAltEnter ==
    /\ ~quitting
    /\ EnterIgnored("KeyAltEnter")
    /\ lastInput' = <<>>

\* the quit keys, with the flags of the session cleared on the way out
KeyQuitResetting ==
    /\ ~quitting
    /\ quitting' = TRUE
    /\ waitingForResp' = FALSE
    /\ typingActive' = FALSE
    /\ lastMsg' = "KeyQuit"
    /\ lastInput' = <<>>
    /\ lastResult' = NoResult
    /\ UNCHANGED <<messages, thinkingDots, inflight,
                   typingTicks, thinkingTicks, dbCalls, titleCalls, err, revealTicks>>

\* case tea.KeyCtrlC, tea.KeyEsc
KeyQuit ==
    /\ ~quitting
    /\ quitting' = TRUE
    /\ lastMsg' = "KeyQuit"
    /\ lastInput' = <<>>
    /\ lastResult' = NoResult
    /\ UNCHANGED <<messages, waitingForResp, typingActive, thinkingDots, inflight,
                   typingTicks, thinkingTicks, dbCalls, titleCalls, err, revealTicks>>

\* case tea.WindowSizeMsg: only the layout (width, height, ready, viewport)
\* changes, which is not part of the state
WindowSize ==
    /\ ~quitting
    /\ lastMsg' = "WindowSizeMsg"
    /\ lastInput' = <<>>
    /\ lastResult' = NoResult
    /\ UNCHANGED <<messages, waitingForResp, typingActive, thinkingDots, quitting,
                   inflight, typingTicks, thinkingTicks, dbCalls, titleCalls, err, revealTicks>>

\* the errors a provider call may return, as texts
ProviderErrors == {ErrProvider}

ExtensionErrors == {ErrDisabled}

\* the message a finished LLM request delivers: getResponse for a chat
\* request, getSummary for a summary request
LlmResult(req, response, error) ==
    [response |-> IF req.kind = "summary" THEN SummaryHeader \o response ELSE response,
     err |-> error,
     isSystemResponse |-> req.kind = "summary"]

\* LogWithResponse with the isSystemResponse test left out: every response
\* replaces a trailing system message
LogWithResponseAnyKind(log, msg) ==
    IF Len(log) - 1 >= 0 /\ log[Len(log)].IsSystem
    THEN [log EXCEPT ![Len(log)] = Message(msg.response, <<>>, FALSE, FALSE, TRUE)]
    ELSE Append(log, Message(msg.response, <<>>, FALSE, FALSE, msg.isSystemResponse))

\* the log after a successful response: the summary replaces a trailing
\* system message, every other response is appended
LogWithResponse(log, msg) ==
    IF msg.isSystemResponse /\ Len(log) - 1 >= 0 /\ log[Len(log)].IsSystem
    THEN [log EXCEPT ![Len(log)] = Message(msg.response, <<>>, FALSE, FALSE, TRUE)]
    ELSE Append(log, Message(msg.response, <<>>, FALSE, FALSE, msg.isSystemResponse))

\* case llmResponse with every successful response saved
HandleLlmResponsePersistingAll(msg) ==
    /\ waitingForResp' = FALSE
    /\ IF msg.err # NoError
       THEN /\ messages' = Append(messages,
                                  Message(ErrorPrefix \o msg.err, ErrorPrefix \o msg.err,
                                          FALSE, TRUE, FALSE))
            /\ err' = msg.err
            /\ UNCHANGED <<typingActive, typingTicks, dbCalls>>
       ELSE /\ messages' = LogWithResponse(messages, msg)
            /\ dbCalls' = Append(dbCalls, <<"assistant", msg.response>>)
            /\ \E addErr \in DbOutcomes :
                   err' = ErrAfterSave(addErr, FALSE, NoError, FALSE)
            /\ typingActive' = TRUE
            /\ typingTicks' = typingTicks + 1
    /\ UNCHANGED <<thinkingDots, quitting, thinkingTicks, titleCalls>>

\* case llmResponse
HandleLlmResponse(msg) ==
    /\ waitingForResp' = FALSE
    /\ IF msg.err # NoError
       THEN /\ messages' = Append(messages,
                                  Message(ErrorPrefix \o msg.err, ErrorPrefix \o msg.err,
                                          FALSE, TRUE, FALSE))
            /\ err' = msg.err
            /\ UNCHANGED <<typingActive, typingTicks, dbCalls>>
       ELSE /\ messages' = LogWithResponse(messages, msg)
            /\ dbCalls' = IF msg.isSystemResponse
                          THEN dbCalls
                          ELSE Append(dbCalls, <<"assistant", msg.response>>)
            /\ \E addErr \in DbOutcomes :
                   err' = IF msg.isSystemResponse
                          THEN err
                          ELSE ErrAfterSave(addErr, FALSE, NoError, FALSE)
            /\ typingActive' = TRUE
            /\ typingTicks' = typingTicks + 1
    /\ UNCHANGED <<thinkingDots, quitting, thinkingTicks, titleCalls>>

\* the result of the LLM request inflight[i] arrives
LlmResponse(i) ==
    /\ ~quitting
    /\ inflight[i].kind \in {"llm", "summary"}
    /\ \E outcome \in ([response : Responses, err : {NoError}]
                           \cup [response : {<<>>}, err : ProviderErrors]) :
           /\ HandleLlmResponse(LlmResult(inflight[i], outcome.response, outcome.err))
           /\ lastResult' = LlmResult(inflight[i], outcome.response, outcome.err)
    /\ inflight' = RemoveAt(inflight, i)
    /\ lastMsg' = "llmResponse"
    /\ lastInput' = <<>>
    /\ revealTicks' = 0

\* the message a finished command delivers.  executeExtensionCommand passes
\* on what Manager.ExecuteCommand returned; handleHelp never fails and
\* delivers a text assembled from the registry, which is never empty.  The
\* registry is the environment of the session: the session uses the length
\* of the text only, and texts of up to MaxRespLen characters are explored.
ExtResult(req, response, error) ==
    IF req.kind = "help"
    THEN [extName |-> <<"h", "e", "l", "p">>, cmdName |-> <<"h", "e", "l", "p">>,
          response |-> IF response = <<>> THEN Response(1) ELSE response, err |-> NoError]
    ELSE [extName |-> req.extName, cmdName |-> req.cmdName,
          response |-> response, err |-> error]

\* HandleExtCommandResponse with the result passed to AddMessage
HandleExtCommandResponsePersisting(msg) ==
    /\ waitingForResp' = FALSE
    /\ IF msg.err # NoError
       THEN /\ messages' =
                   Append(messages,
                          Message(ExtErrorPrefix \o msg.extName \o <<" ">> \o msg.cmdName
                                      \o <<":", " ">> \o msg.err,
                                  ExtErrorPrefix \o msg.extName \o <<" ">> \o msg.cmdName
                                      \o <<":", " ">> \o msg.err,
                                  FALSE, TRUE, TRUE))
            /\ UNCHANGED <<typingActive, typingTicks, dbCalls>>
       ELSE /\ messages' =
                   Append(messages,
                          Message(ResultPrefix \o msg.extName \o <<" ">> \o msg.cmdName
                                      \o <<"\n", "\n">> \o msg.response,
                                  <<>>, FALSE, FALSE, TRUE))
            /\ dbCalls' = Append(dbCalls, <<"assistant", msg.response>>)
            /\ typingActive' = TRUE
            /\ typingTicks' = typingTicks + 1
    /\ UNCHANGED <<thinkingDots, quitting, thinkingTicks, titleCalls, err>>

\* case extCommandResponse
HandleExtCommandResponse(msg) ==
    /\ waitingForResp' = FALSE
    /\ IF msg.err # NoError
       THEN /\ messages' =
                   Append(messages,
                          Message(ExtErrorPrefix \o msg.extName \o <<" ">> \o msg.cmdName
                                      \o <<":", " ">> \o msg.err,
                                  ExtErrorPrefix \o msg.extName \o <<" ">> \o msg.cmdName
                                      \o <<":", " ">> \o msg.err,
                                  FALSE, TRUE, TRUE))
            /\ UNCHANGED <<typingActive, typingTicks>>
       ELSE /\ messages' =
                   Append(messages,
                          Message(ResultPrefix \o msg.extName \o <<" ">> \o msg.cmdName
                                      \o <<"\n", "\n">> \o msg.response,
                                  <<>>, FALSE, FALSE, TRUE))
            /\ typingActive' = TRUE
            /\ typingTicks' = typingTicks + 1
    /\ UNCHANGED <<thinkingDots, quitting, thinkingTicks, dbCalls,
                   titleCalls, err>>

\* the result of the extension or help command inflight[i] arrives
ExtCommandResponse(i) ==
    /\ ~quitting
    /\ inflight[i].kind \in {"ext", "help"}
    /\ entry.extManager = "set"
    /\ \E outcome \in ([response : Responses, err : {NoError}]
                           \cup [response : {<<>>}, err : ExtensionErrors]) :
           /\ HandleExtCommandResponse(ExtResult(inflight[i], outcome.response, outcome.err))
           /\ lastResult' = ExtResult(inflight[i], outcome.response, outcome.err)
    /\ inflight' = RemoveAt(inflight, i)
    /\ lastMsg' = "extCommandResponse"
    /\ lastInput' = <<>>
    /\ revealTicks' = 0

\* executeExtensionCommand and handleHelp with extManager nil: the command
\* calls a method that reads a field of the nil Manager, the goroutine
\* panics and the process dies; no extCommandResponse is delivered
CommandPanics(i) ==
    /\ ~quitting
    /\ ~entry.panicked
    /\ inflight[i].kind \in {"ext", "help"}
    /\ entry.extManager = "nil"
    /\ entry' = [entry EXCEPT !.panicked = TRUE]
    /\ lastMsg' = "panic"
    /\ lastInput' = <<>>
    /\ lastResult' = NoResult
    /\ UNCHANGED <<messages, waitingForResp, typingActive, thinkingDots, quitting,
                   inflight, typingTicks, thinkingTicks, dbCalls, titleCalls, err,
                   revealTicks>>

\* ThinkingTick with the dots counted up instead of cycled
ThinkingTickNoCycle ==
    /\ ~quitting
    /\ thinkingTicks > 0
    /\ thinkingTicks' = (thinkingTicks - 1) + 1
    /\ thinkingDots' = IF waitingForResp THEN thinkingDots + 1 ELSE thinkingDots
    /\ lastMsg' = "thinkingTickMsg"
    /\ lastInput' = <<>>
    /\ lastResult' = NoResult
    /\ UNCHANGED <<messages, waitingForResp, typingActive, quitting, inflight,
                   typingTicks, dbCalls, titleCalls, err, revealTicks>>

\* ThinkingTick with the next tick scheduled only while a response is
\* awaited
ThinkingTickWhileWaiting ==
    /\ ~quitting
    /\ thinkingTicks > 0
    /\ thinkingTicks' = IF waitingForResp THEN (thinkingTicks - 1) + 1
                        ELSE thinkingTicks - 1
    /\ thinkingDots' = IF waitingForResp THEN (thinkingDots % 3) + 1 ELSE thinkingDots
    /\ lastMsg' = "thinkingTickMsg"
    /\ lastInput' = <<>>
    /\ lastResult' = NoResult
    /\ UNCHANGED <<messages, waitingForResp, typingActive, quitting, inflight,
                   typingTicks, dbCalls, titleCalls, err, revealTicks>>

\* case thinkingTickMsg: the next tick is always scheduled
ThinkingTick ==
    /\ ~quitting
    /\ thinkingTicks > 0
    /\ thinkingTicks' = (thinkingTicks - 1) + 1
    /\ thinkingDots' = IF waitingForResp THEN (thinkingDots % 3) + 1 ELSE thinkingDots
    /\ lastMsg' = "thinkingTickMsg"
    /\ lastInput' = <<>>
    /\ lastResult' = NoResult
    /\ UNCHANGED <<messages, waitingForResp, typingActive, quitting, inflight,
                   typingTicks, dbCalls, titleCalls, err, revealTicks>>

\* CharsToAdd with the step one character too long
CharsToAddOffByOne(m) ==
    Min(typingSpeed + 1, Len(m.Content) - Len(m.VisibleContent))

\* the characters one typing step adds to message m
CharsToAdd(m) == Min(typingSpeed, Len(m.Content) - Len(m.VisibleContent))

\* Reveal that keeps only the characters of this step:
\* fullContent[len(currentVisible):len(currentVisible)+charsToAdd]
RevealChunk(m) ==
    LET visible == IF CharsToAdd(m) > 0
                   THEN SubSeq(m.Content, Len(m.VisibleContent) + 1,
                               Len(m.VisibleContent) + CharsToAdd(m))
                   ELSE m.VisibleContent
    IN  [m EXCEPT !.VisibleContent = visible,
                  !.IsComplete = Len(visible) >= Len(m.Content)]

\* Reveal that marks the message complete after its first step
RevealCompleteAtOnce(m) ==
    LET visible == IF CharsToAdd(m) > 0
                   THEN SubSeq(m.Content, 1, Len(m.VisibleContent) + CharsToAdd(m))
                   ELSE m.VisibleContent
    IN  [m EXCEPT !.VisibleContent = visible, !.IsComplete = TRUE]

\* the last message after one typing step: charsToAdd more characters of
\* Content, and IsComplete once everything is visible
Reveal(m) ==
    LET visible == IF CharsToAdd(m) > 0
                   THEN SubSeq(m.Content, 1, Len(m.VisibleContent) + CharsToAdd(m))
                   ELSE m.VisibleContent
    IN  [m EXCEPT !.VisibleContent = visible,
                  !.IsComplete = Len(visible) >= Len(m.Content)]

\* whether a typing tick handled now reaches the typing step
TickApplies ==
    /\ typingActive
    /\ Len(messages) - 1 >= 0
    /\ ~messages[Len(messages)].IsUser
    /\ ~messages[Len(messages)].IsComplete

\* case typingMsg: the next tick is scheduled when characters were added
\* and the message is not yet fully visible
TypingTick ==
    /\ ~quitting
    /\ typingTicks > 0
    /\ IF TickApplies
       THEN LET old == messages[Len(messages)]
                new == Reveal(old)
            IN  /\ messages' = [messages EXCEPT ![Len(messages)] = new]
                /\ typingActive' = ~new.IsComplete
                /\ typingTicks' =
                       IF CharsToAdd(old) > 0
                          /\ Len(new.VisibleContent) < Len(new.Content)
                       THEN (typingTicks - 1) + 1
                       ELSE typingTicks - 1
                /\ revealTicks' = revealTicks + 1
       ELSE /\ typingTicks' = typingTicks - 1
            /\ UNCHANGED <<messages, typingActive, revealTicks>>
    /\ lastMsg' = "typingMsg"
    /\ lastInput' = <<>>
    /\ lastResult' = NoResult
    /\ UNCHANGED <<waitingForResp, thinkingDots, quitting, inflight, thinkingTicks,
                   dbCalls, titleCalls, err>>

(***************************************************************************)
(* The specifications.                                                     *)
(***************************************************************************)
Next ==
    \/ (\E value \in Inputs : KeyEnter(value)) /\ SessionStep
    \/ KeyAltEnter /\ SessionStep
    \/ KeyQuit /\ SessionStep
    \/ WindowSize /\ SessionStep
    \/ (\E i \in 1..Len(inflight) : LlmResponse(i)) /\ SessionStep
    \/ (\E i \in 1..Len(inflight) : ExtCommandResponse(i))
           /\ SessionStep
    \/ (\E i \in 1..Len(inflight) : CommandPanics(i))
           /\ UNCHANGED <<registryVars, splitCall>>
    \/ ThinkingTick /\ SessionStep
    \/ TypingTick /\ SessionStep

Spec == Init /\ [][Next]_vars

\* what the user may type, with more shapes of command lines
EnterInputs ==
    Inputs \cup
    { <<"/">>,
      <<"/", "h", "e", "l", "p", " ", "x">>,
      <<"/", "s", "y", "s", " ", "l", "s", " ", "a", " ", "b">>,
      <<"/", "s", "y", "s", " ", " ", "l", "s">> }

\* the session driven by the submissions, the results and the typing ticks
NextEnter ==
    \/ (\E value \in EnterInputs : KeyEnter(value))
           /\ SessionStep
    \/ (\E i \in 1..Len(inflight) : LlmResponse(i)) /\ SessionStep
    \/ (\E i \in 1..Len(inflight) : ExtCommandResponse(i))
           /\ SessionStep
    \/ (\E i \in 1..Len(inflight) : CommandPanics(i))
           /\ UNCHANGED <<registryVars, splitCall>>
    \/ TypingTick /\ SessionStep

SpecEnter == Init /\ [][NextEnter]_vars

NextCM ==
    \/ (\E value \in InputsCM : KeyEnterCM(value)) /\ SessionStep
    \/ KeyQuit /\ SessionStep
    \/ WindowSize /\ SessionStep
    \/ (\E i \in 1..Len(inflight) : LlmResponse(i)) /\ SessionStep
    \/ ThinkingTick /\ SessionStep
    \/ TypingTick /\ SessionStep

SpecCM == InitCM /\ [][NextCM]_vars

(***************************************************************************)
(* The manager on its own: root.go creates it, LoadExtensions runs at most  *)
(* once, before any other method, and the other methods are then called in  *)
(* any order.  No session exists yet.                                       *)
(***************************************************************************)
\* the fields of a ChatModel that was not constructed
NoSession ==
    /\ messages = <<>>
    /\ waitingForResp = FALSE
    /\ typingActive = FALSE
    /\ thinkingDots = 0
    /\ quitting = FALSE
    /\ inflight = <<>>
    /\ typingTicks = 0
    /\ thinkingTicks = 0
    /\ dbCalls = <<>>
    /\ titleCalls = 0
    /\ err = NoError
    /\ lastMsg = "none"
    /\ revealTicks = 0
    /\ lastInput = <<>>
    /\ lastResult = NoResult

\* the names the methods are called with: registered ones and others
ExtNames == {"system", "notes", "nope"}

CmdNames == {"ls", "pwd", "add", "nope"}

ArgLists == {<<>>, <<"x">>}

InitRegistry ==
    /\ NoSession
    /\ splitCall = NoSplit
    /\ entry = NoEntry
    /\ \E enabled \in BOOLEAN : manager = NewManager(enabled)
    /\ startup = "created"
    /\ mgrCall = NoCall

\* root.go calls LoadExtensions on an enabled manager only; the method
\* itself may be called on any manager
LoadExtensions ==
    /\ startup = "created"
    /\ \E env \in LoadEnvironments :
           /\ manager' = LoadExtensionsResult(manager, env).manager
           /\ mgrCall' = [op |-> "LoadExtensions", env |-> env,
                          err |-> LoadExtensionsResult(manager, env).err]
    /\ startup' = "loaded"

\* the methods other than LoadExtensions are called once startup is over:
\* after LoadExtensions, or on a manager root.go created disabled
Started == startup # "created" \/ ~manager.enabled

\* ExecuteCommand with the registered command always run
ExecuteCommandUnchecked(extName, cmdName, args) ==
    /\ Started
    /\ \E outcome \in CommandOutcomes :
           mgrCall' = [op |-> "ExecuteCommand", extName |-> extName, cmdName |-> cmdName,
                       args |-> args]
                          @@ ExecuteCommandResult([manager EXCEPT !.enabled = TRUE],
                                                  extName, cmdName, args, outcome)
    /\ startup' = "serving"
    /\ UNCHANGED manager

ExecuteCommand(extName, cmdName, args) ==
    /\ Started
    /\ \E outcome \in CommandOutcomes :
           mgrCall' = [op |-> "ExecuteCommand", extName |-> extName, cmdName |-> cmdName,
                       args |-> args]
                          @@ ExecuteCommandResult(manager, extName, cmdName, args, outcome)
    /\ startup' = "serving"
    /\ UNCHANGED manager

\* GetExtension that takes the entry out of the map
GetExtensionRemoving(name) ==
    /\ Started
    /\ mgrCall' = [op |-> "GetExtension", extName |-> name,
                   found |-> {e \in manager.extensions : e[1] = name},
                   ok |-> \E e \in manager.extensions : e[1] = name]
    /\ startup' = "serving"
    /\ manager' = [manager EXCEPT !.extensions = {e \in @ : e[1] # name}]

GetExtension(name) ==
    /\ Started
    /\ mgrCall' = [op |-> "GetExtension", extName |-> name,
                   found |-> {e \in manager.extensions : e[1] = name},
                   ok |-> \E e \in manager.extensions : e[1] = name]
    /\ startup' = "serving"
    /\ UNCHANGED manager

GetCommands(extName) ==
    /\ Started
    /\ mgrCall' = [op |-> "GetCommands", extName |-> extName,
                   commands |-> {c \in manager.commands : c[1] = extName}]
    /\ startup' = "serving"
    /\ UNCHANGED manager

ListExtensions ==
    /\ Started
    /\ mgrCall' = [op |-> "ListExtensions", extensions |-> manager.extensions]
    /\ startup' = "serving"
    /\ UNCHANGED manager

IsEnabled ==
    /\ Started
    /\ mgrCall' = [op |-> "IsEnabled", enabled |-> manager.enabled]
    /\ startup' = "serving"
    /\ UNCHANGED manager

NextRegistry ==
    \/ LoadExtensions /\ UNCHANGED <<sessionVars, splitCall, entry>>
    \/ (\E extName \in ExtNames, cmdName \in CmdNames, args \in ArgLists :
            ExecuteCommand(extName, cmdName, args))
           /\ UNCHANGED <<sessionVars, splitCall, entry>>
    \/ (\E name \in ExtNames : GetExtension(name)) /\ UNCHANGED <<sessionVars, splitCall, entry>>
    \/ (\E extName \in ExtNames : GetCommands(extName))
           /\ UNCHANGED <<sessionVars, splitCall, entry>>
    \/ ListExtensions /\ UNCHANGED <<sessionVars, splitCall, entry>>
    \/ IsEnabled /\ UNCHANGED <<sessionVars, splitCall, entry>>

SpecRegistry == InitRegistry /\ [][NextRegistry]_vars

(***************************************************************************)
(* The loader on its own: LoadExtensions has registered the built-in        *)
(* extension and calls LoadExtension on the .so files it finds, in any      *)
(* order and number; the commands registered are then executed.  A panic    *)
(* ends the program.                                                        *)
(***************************************************************************)
InitLoader ==
    /\ NoSession
    /\ splitCall = NoSplit
    /\ entry = NoEntry
    /\ manager = LoadSimpleExtensions(NewManager(TRUE))
    /\ startup = "loading"
    /\ mgrCall = NoCall

BundleAt(file) == CHOOSE bundle \in Bundles : bundle.file = file

\* one pass of the loop of LoadExtensions: LoadExtension(path), a warning
\* if it returns an error, and on to the next file
LoadFile(bundle) ==
    /\ startup = "loading"
    /\ manager' = LoadExtensionResult(manager, bundle).manager
    /\ mgrCall' = [op |-> "LoadExtension", file |-> bundle.file,
                   err |-> LoadExtensionResult(manager, bundle).err,
                   panic |-> LoadExtensionResult(manager, bundle).panic]
    /\ startup' = IF LoadExtensionResult(manager, bundle).panic
                  THEN "crashed" ELSE "loading"

\* the loop of LoadExtensions is over
FinishLoading ==
    /\ startup = "loading"
    /\ startup' = "loaded"
    /\ mgrCall' = [op |-> "LoadExtensions", err |-> NoError]
    /\ UNCHANGED manager

\* what Execute of a registered command does: a built-in command runs Go
\* code of the program, a loaded one goes through CommandWrapper.Execute
ExecuteOutcomes(m, extName, cmdName) ==
    IF \E c \in m.commands : c[1] = extName /\ c[2] = cmdName /\ c[3] # "builtin"
    THEN LET cmd == CHOOSE c \in m.commands : c[1] = extName /\ c[2] = cmdName
         IN  {CommandWrapperExecute(WrappedHandle(BundleAt(cmd[3]), cmdName))}
    ELSE {[result |-> o.result, err |-> o.err, panic |-> FALSE] : o \in CommandOutcomes}

\* ExecuteCommand on the manager the loader left
ExecuteLoadedCommand(extName, cmdName, args) ==
    /\ startup \in {"loaded", "serving"}
    /\ \E outcome \in ExecuteOutcomes(manager, extName, cmdName) :
           LET call == ExecuteCommandResult(manager, extName, cmdName, args, outcome)
               panic == call.executed # <<>> /\ outcome.panic
           IN  /\ mgrCall' = [op |-> "ExecuteCommand", extName |-> extName,
                              cmdName |-> cmdName, args |-> args, panic |-> panic]
                                 @@ call
               /\ startup' = IF panic THEN "crashed" ELSE "serving"
    /\ UNCHANGED manager

\* ExtensionWrapper.Commands of a registered extension that was loaded
WrapperCommands(extName) ==
    /\ startup \in {"loaded", "serving"}
    /\ \E e \in manager.extensions :
           /\ e[1] = extName
           /\ e[2] # "builtin"
           /\ LET result == callExtensionMethod(BundleAt(e[2]).value, "Commands")
                  wrapped == WrapCommands(convertToInterfaceSlice(result.value), 1, {})
                  panic == result.panic \/ (result.err = NoError /\ wrapped.panic)
              IN  /\ mgrCall' = [op |-> "Commands", extName |-> extName,
                                 names |-> IF result.err # NoError \/ panic
                                           THEN {} ELSE wrapped.names,
                                 panic |-> panic]
                  /\ startup' = IF panic THEN "crashed" ELSE "serving"
    /\ UNCHANGED manager

NextLoader ==
    \/ (\E bundle \in Bundles : LoadFile(bundle))
           /\ UNCHANGED <<sessionVars, splitCall, entry>>
    \/ FinishLoading /\ UNCHANGED <<sessionVars, splitCall, entry>>
    \/ (\E extName \in ExtNames, cmdName \in CmdNames, args \in ArgLists :
            ExecuteLoadedCommand(extName, cmdName, args))
           /\ UNCHANGED <<sessionVars, splitCall, entry>>
    \/ (\E extName \in ExtNames : WrapperCommands(extName))
           /\ UNCHANGED <<sessionVars, splitCall, entry>>

SpecLoader == InitLoader /\ [][NextLoader]_vars

(***************************************************************************)
(* The built-in read command on its own: one call of commandRead, on any    *)
(* argument list and any state of the files it names.                       *)
(***************************************************************************)
\* 1024*1024, the largest content commandRead returns
MaxReadSize == 1048576

\* the content of a file or of a string: len times the same byte
Content(len, byte) == [len |-> len, byte |-> IF len = 0 THEN 0 ELSE byte]

EmptyString == Content(0, 0)

\* what os.ReadFile returns for a path
ReadableFile(content) == [content |-> content, err |-> NoError]

UnreadableFile(error) == [content |-> EmptyString, err |-> error]

Paths == {"a", "b"}

FileSizes == {0, 1, MaxReadSize - 1, MaxReadSize, MaxReadSize + 1, 2 * MaxReadSize}

Files ==
    {ReadableFile(Content(len, byte)) : len \in FileSizes, byte \in {97, 98}}
        \cup {UnreadableFile(<<"no such file or directory">>),
              UnreadableFile(<<"permission denied">>)}

FileSystems == [Paths -> Files]

ReadArgs == {<<>>, <<"a">>, <<"b">>, <<"a", "b">>}

\* commandRead that refuses a content of exactly MaxReadSize bytes
commandReadRefusingLimit(args, fs) ==
    IF Len(args) = 0
    THEN [result |-> EmptyString, err |-> <<"please provide a file path">>, read |-> <<>>]
    ELSE IF fs[args[1]].err # NoError
         THEN [result |-> EmptyString, err |-> fs[args[1]].err, read |-> <<args[1]>>]
         ELSE IF fs[args[1]].content.len >= MaxReadSize
              THEN [result |-> EmptyString, err |-> <<"file too large (>1MB)">>,
                    read |-> <<args[1]>>]
              ELSE [result |-> fs[args[1]].content, err |-> NoError,
                    read |-> <<args[1]>>]

\* commandRead(args): the string and the error it returns, and the paths it
\* called os.ReadFile on
commandRead(args, fs) ==
    IF Len(args) = 0
    THEN [result |-> EmptyString, err |-> <<"please provide a file path">>, read |-> <<>>]
    ELSE IF fs[args[1]].err # NoError
         THEN [result |-> EmptyString, err |-> fs[args[1]].err, read |-> <<args[1]>>]
         ELSE IF fs[args[1]].content.len > MaxReadSize
              THEN [result |-> EmptyString, err |-> <<"file too large (>1MB)">>,
                    read |-> <<args[1]>>]
              ELSE [result |-> fs[args[1]].content, err |-> NoError,
                    read |-> <<args[1]>>]

InitRead ==
    /\ NoSession
    /\ splitCall = NoSplit
    /\ entry = NoEntry
    /\ RegistryServing

\* SimpleCommand.Execute of the read command
CommandRead(args, fs) ==
    /\ mgrCall' = [op |-> "read", args |-> args, fs |-> fs] @@ commandRead(args, fs)
    /\ UNCHANGED <<manager, startup>>

NextRead ==
    (\E args \in ReadArgs, fs \in FileSystems : CommandRead(args, fs))
        /\ UNCHANGED <<sessionVars, splitCall, entry>>

SpecRead == InitRead /\ [][NextRead]_vars

(***************************************************************************)
(* splitArgs on its own: one call, on any line of up to MaxArgLen           *)
(* characters or on one of the longer examples.                             *)
(***************************************************************************)
ArgAlphabet == {"a", " ", "'", "\""}

ArgExamples ==
    { <<"a", " ", "\"", "b", " ", "c", "\"", " ", "d">>,
      <<"a", " ", "\"", "b">>,
      <<"'", "a", " ", "b", "'", " ", "c">> }

ArgLines == UNION { [1..n -> ArgAlphabet] : n \in 0..MaxArgLen } \cup ArgExamples

InitArgs ==
    /\ NoSession
    /\ entry = NoEntry
    /\ RegistryServing
    /\ \E line \in ArgLines : splitCall = [state |-> "called", s |-> line, args |-> <<>>]

\* the call returns
SplitArgsReturns ==
    /\ splitCall.state = "called"
    /\ splitCall' = [splitCall EXCEPT !.state = "returned", !.args = splitArgs(splitCall.s)]

NextArgs == SplitArgsReturns /\ UNCHANGED <<sessionVars, registryVars, entry>>

SpecArgs == InitArgs /\ [][NextArgs]_vars

(***************************************************************************)
(* The claims.                                                             *)
(***************************************************************************)
\* the branches of case tea.KeyEnter
EnterBranches ==
    {"KeyEnter:busy", "KeyEnter:empty", "KeyEnter:summarize", "KeyEnter:help",
     "KeyEnter:extension", "KeyEnter:missingCommand", "KeyEnter:chat"}

\* C1: at most one asynchronous request (LLM chat, summary, extension
\* command, help) is in flight in every state of a session.
C1_AtMostOneInFlight == Len(inflight) <= 1

\* C2: a step that handles Enter while waitingForResp is true appends no
\* message, issues no request, schedules no tick, makes no persistence call
\* and leaves waitingForResp, typingActive and thinkingDots as they are.
C2_EnterWhileWaitingIgnored ==
    [][(waitingForResp /\ lastMsg' \in EnterBranches)
          => UNCHANGED <<messages, inflight, typingTicks, dbCalls, titleCalls,
                         waitingForResp, typingActive, thinkingDots>>]_vars

\* C2, witness: Enter has just been handled while a response was awaited
C2_Witness == lastMsg = "KeyEnter:busy" /\ waitingForResp /\ Len(inflight) = 1

\* C3: a step that handles Enter while typingActive is true appends no
\* message, issues no request and makes no persistence call.
C3_EnterWhileTypingIgnored ==
    [][(typingActive /\ lastMsg' \in EnterBranches)
          => UNCHANGED <<messages, inflight, dbCalls, titleCalls>>]_vars

\* C4: waitingForResp and typingActive are never both true.
C4_WaitingExcludesTyping == ~(waitingForResp /\ typingActive)

IsPrefix(p, s) == Len(p) <= Len(s) /\ SubSeq(s, 1, Len(p)) = p

\* C5: in every state the visibleContent of every message of the log is a
\* prefix of its content.
C5_VisibleIsPrefix ==
    \A i \in 1..Len(messages) :
        IsPrefix(messages[i].VisibleContent, messages[i].Content)

\* C5, witness: a typing tick has left a message partly revealed
C5_Witness ==
    /\ lastMsg = "typingMsg"
    /\ \E i \in 1..Len(messages) :
           /\ Len(messages[i].VisibleContent) > 0
           /\ Len(messages[i].VisibleContent) < Len(messages[i].Content)

SummaryOverwrites(i) ==
    /\ lastMsg' = "llmResponse"
    /\ i = Len(messages)
    /\ Len(messages') = Len(messages)
    /\ messages[i].IsSystem
    /\ HasPrefix(messages'[i].Content, SummaryHeader)
    /\ messages'[i] = Message(messages'[i].Content, <<>>, FALSE, FALSE, TRUE)

C7_CompleteIsFullyVisible ==
    \A i \in 1..Len(messages) :
        /\ messages[i].IsComplete
              => messages[i].VisibleContent = messages[i].Content
        /\ messages[i].IsUser => messages[i].IsComplete

\* C7, witness: a reveal of several ticks has completed below a user message
C7_Witness ==
    /\ lastMsg = "typingMsg"
    /\ ~messages[Len(messages)].IsUser
    /\ messages[Len(messages)].IsComplete
    /\ revealTicks > 1
    /\ \E i \in 1..Len(messages) : messages[i].IsUser

Ceil(n, d) == (n + d - 1) \div d

\* C8: a typing tick applied to a message with n >= 1 characters that
\* started empty adds exactly min(4, n - len(visibleContent)) characters;
\* tick number k leaves min(4k, n) characters visible, and the message is
\* complete and typingActive cleared on tick ceil(n/4) and on none before.
C8_RevealStep ==
    [][(lastMsg' = "typingMsg" /\ TickApplies
            /\ Len(messages[Len(messages)].Content) >= 1)
          => LET old == messages[Len(messages)]
                 new == messages'[Len(messages)]
                 n == Len(old.Content)
                 tick == revealTicks'
             IN  /\ Len(messages') = Len(messages)
                 /\ typingSpeed = 4
                 /\ Len(new.VisibleContent) - Len(old.VisibleContent)
                        = Min(4, n - Len(old.VisibleContent))
                 /\ Len(new.VisibleContent) = Min(4 * tick, n)
                 /\ tick <= Ceil(n, 4)
                 /\ new.IsComplete <=> tick = Ceil(n, 4)
                 /\ typingActive' <=> tick < Ceil(n, 4)]_vars

\* C8, witness: a message of 25 characters has completed on its 7th tick
C8_Witness ==
    /\ lastMsg = "typingMsg"
    /\ Len(messages[Len(messages)].Content) = 25
    /\ messages[Len(messages)].IsComplete
    /\ revealTicks = 7
    /\ ~typingActive

\* C9, in the form a finite run refutes: when every request has delivered
\* its result and every scheduled typing tick has been handled, no message
\* of the log is incomplete (it would stay so while the user types nothing).
C9_QuiescentAllComplete ==
    (inflight = <<>> /\ typingTicks = 0)
        => \A i \in 1..Len(messages) : messages[i].IsComplete

\* C9: in a session that is not quit and whose process has not died, every
\* message that is in the log incomplete becomes complete.
C9_EventuallyComplete ==
    \A i \in 1..MaxLog :
        (i <= Len(messages) /\ ~messages[i].IsComplete)
            ~> (quitting \/ entry.panicked
                  \/ (i <= Len(messages) /\ messages[i].IsComplete))

CyclicSuccessor(d) == CASE d = 1 -> 2 [] d = 2 -> 3 [] d = 3 -> 1

\* C10: thinkingDots is 1, 2 or 3; a thinking tick handled while
\* waitingForResp is true moves it to its cyclic successor, one handled
\* while waitingForResp is false leaves it, and no other event changes it.
C10_ThinkingDots ==
    /\ thinkingDots \in {1, 2, 3}
    /\ [][/\ thinkingDots' \in {1, 2, 3}
          /\ (lastMsg' = "thinkingTickMsg" /\ waitingForResp)
                => thinkingDots' = CyclicSuccessor(thinkingDots)
          /\ (lastMsg' = "thinkingTickMsg" /\ ~waitingForResp)
                => thinkingDots' = thinkingDots
          /\ lastMsg' # "thinkingTickMsg" => thinkingDots' = thinkingDots]_vars

\* C10, witness: a tick handled while waiting has wrapped the dots to 1
C10_Witness ==
    lastMsg = "thinkingTickMsg" /\ waitingForResp /\ thinkingDots = 1

\* a session whose scheduled ticks and issued requests are delivered
FairSpec ==
    /\ Spec
    /\ WF_vars(TypingTick /\ SessionStep)
    /\ WF_vars((\E i \in 1..Len(inflight) : LlmResponse(i))
                  /\ SessionStep)
    /\ WF_vars((\E i \in 1..Len(inflight) : ExtCommandResponse(i))
                  /\ SessionStep)

\* C11: from Init until quit exactly one thinking tick is outstanding: Init
\* schedules one, and every handled thinking tick schedules exactly one,
\* whether or not a response is awaited
C11_ThinkingTickOutstanding ==
    /\ thinkingTicks = 1
    /\ [][ /\ (lastMsg' = "thinkingTickMsg" => thinkingTicks' = (thinkingTicks - 1) + 1)
           /\ (~quitting' => thinkingTicks' = 1) ]_vars

\* a thinking tick was handled while no response was awaited, and the next
\* one is outstanding
C11_Witness ==
    /\ lastMsg = "thinkingTickMsg"
    /\ ~waitingForResp
    /\ Len(messages) > 1
    /\ thinkingTicks = 1

\* the last message of a log
Last(log) == log[Len(log)]

\* C12: a non-empty input that is not a command, submitted while idle, takes
\* the chat flow: one complete user message holding the trimmed input is
\* appended, waitingForResp is set and one LLM request carrying that input
\* is issued; when a chat request succeeds with response r, waitingForResp
\* is cleared, one incomplete message that is neither user nor system, with
\* content r and nothing visible, is appended, and typingActive is set
C12_ChatFlow ==
    [][ /\ (lastInput' # <<>> /\ ~HasPrefix(TrimSpace(lastInput'), <<"/">>)
               => lastMsg' = "KeyEnter:chat")
        /\ (lastMsg' = "KeyEnter:chat"
               => LET input == TrimSpace(lastInput')
                  IN  /\ input # <<>>
                      /\ messages' = Append(messages,
                                            Message(input, input, TRUE, TRUE, FALSE))
                      /\ waitingForResp'
                      /\ inflight' = Append(inflight,
                                            Request("llm", input, <<>>, <<>>, <<>>)))
        /\ (lastMsg' = "llmResponse" /\ ~lastResult'.isSystemResponse
                 /\ lastResult'.err = NoError
               => /\ ~waitingForResp'
                  /\ messages' = Append(messages,
                                        Message(lastResult'.response, <<>>,
                                                FALSE, FALSE, FALSE))
                  /\ typingActive'
                  /\ \E i \in 1..Len(inflight) :
                         /\ inflight[i].kind = "llm"
                         /\ inflight' = RemoveAt(inflight, i))
      ]_vars

\* a chat request has succeeded with a non-empty response, right after the
\* user message that carried its prompt
C12_Witness ==
    /\ lastMsg = "llmResponse"
    /\ lastResult.err = NoError /\ ~lastResult.isSystemResponse
    /\ lastResult.response # <<>>
    /\ Len(messages) >= 3
    /\ messages[Len(messages) - 1] = Message(<<"h", "i">>, <<"h", "i">>, TRUE, TRUE, FALSE)
    /\ Last(messages) = Message(lastResult.response, <<>>, FALSE, FALSE, FALSE)
    /\ typingActive /\ ~waitingForResp

\* C13, the handler's effects: an LLM result (chat or summary) with an error
\* clears waitingForResp, appends exactly one message that is complete and
\* fully visible, makes no persistence call, leaves typingActive as it was
\* and schedules no typing tick
C13_ErrorResultEffects ==
    [][ lastMsg' = "llmResponse" /\ lastResult'.err # NoError
          => /\ ~waitingForResp'
             /\ Len(messages') = Len(messages) + 1
             /\ SubSeq(messages', 1, Len(messages)) = messages
             /\ Last(messages').IsComplete
             /\ Last(messages').VisibleContent = Last(messages').Content
             /\ dbCalls' = dbCalls
             /\ typingActive' = typingActive
             /\ typingTicks' = typingTicks
      ]_vars

\* C13: the effects above, and the session accepts input after the error:
\* the guard of the Enter handler passes
C13_ErrorResult ==
    /\ C13_ErrorResultEffects
    /\ [](lastMsg = "llmResponse" /\ lastResult.err # NoError
            => ~waitingForResp /\ ~typingActive)

\* C14: an extension-command result clears waitingForResp and appends
\* exactly one system message, with no persistence call: on error a complete
\* message naming /<extension> <command>, typingActive left alone and no
\* tick scheduled; on success an incomplete message with nothing visible
\* holding the labelled result block, typingActive set and one typing tick
\* scheduled
C14_ExtensionResult ==
    [][ lastMsg' = "extCommandResponse"
          => LET msg  == lastResult'
                 name == msg.extName \o <<" ">> \o msg.cmdName
                 new  == Last(messages')
             IN  /\ ~waitingForResp'
                 /\ Len(messages') = Len(messages) + 1
                 /\ SubSeq(messages', 1, Len(messages)) = messages
                 /\ new.IsSystem /\ ~new.IsUser
                 /\ dbCalls' = dbCalls
                 /\ IF msg.err # NoError
                    THEN /\ new.IsComplete
                         /\ new.VisibleContent = new.Content
                         /\ HasPrefix(new.Content, ExtErrorPrefix \o name)
                         /\ typingActive' = typingActive
                         /\ typingTicks' = typingTicks
                    ELSE /\ ~new.IsComplete
                         /\ new.VisibleContent = <<>>
                         /\ new.Content = ResultPrefix \o name \o <<"\n", "\n">>
                                              \o msg.response
                         /\ typingActive'
                         /\ typingTicks' = typingTicks + 1
      ]_vars

\* a command has failed after an earlier command's result was revealed
C14_Witness ==
    /\ lastMsg = "extCommandResponse"
    /\ lastResult.err # NoError
    /\ Len(messages) >= 3
    /\ Last(messages).IsComplete /\ Last(messages).IsSystem
    /\ HasPrefix(Last(messages).Content, ExtErrorPrefix \o <<"s", "y", "s", " ", "l", "s">>)
    /\ HasPrefix(messages[Len(messages) - 1].Content, ResultPrefix)
    /\ messages[Len(messages) - 1].IsComplete
    /\ ~typingActive

\* the text before the first space of s, all of s when it has no space
FirstWord(s) == IF IndexOf(s, " ") = 0 THEN s ELSE SubSeq(s, 1, IndexOf(s, " ") - 1)

\* whether a trimmed input is command syntax: it starts with "/" and is
\* longer than that
IsCommand(input) == HasPrefix(input, <<"/">>) /\ Len(input) > 1

\* C15: classification of a trimmed input submitted while idle: exactly
\* /summarize is the summary action; a command whose first word is help is
\* the help action; /ext without a command word appends a complete system
\* message naming ext and issues no request; /ext cmd a b is dispatched as
\* (ext, cmd, [a, b]); "/" alone and every input not starting with "/" is
\* chat content; a dispatch is emitted only with a non-empty command name
C15_Classification ==
    [][ lastInput' # <<>>
          => LET input == TrimSpace(lastInput')
                 body  == Tail(input)
             IN  /\ (input = SummarizeCmd <=> lastMsg' = "KeyEnter:summarize")
                 /\ (IsCommand(input) /\ FirstWord(body) = <<"h", "e", "l", "p">>
                        <=> lastMsg' = "KeyEnter:help")
                 /\ (IsCommand(input) /\ input # SummarizeCmd
                         /\ FirstWord(body) # <<"h", "e", "l", "p">>
                         /\ IndexOf(body, " ") = 0
                        <=> lastMsg' = "KeyEnter:missingCommand")
                 /\ (lastMsg' = "KeyEnter:missingCommand"
                        => /\ inflight' = inflight
                           /\ messages' =
                                  Append(messages,
                                         Message(SpecifyPrefix \o body \o SpecifySuffix,
                                                 SpecifyPrefix \o body \o SpecifySuffix,
                                                 FALSE, TRUE, TRUE)))
                 /\ (~IsCommand(input) <=> lastMsg' = "KeyEnter:chat")
                 /\ (lastMsg' = "KeyEnter:extension"
                        => /\ Len(inflight') = Len(inflight) + 1
                           /\ Last(inflight').kind = "ext"
                           /\ Last(inflight').extName = FirstWord(body)
                           /\ Last(inflight').cmdName # <<>>)
                 /\ (input = <<"/", "s", "y", "s", " ", "l", "s", " ", "a", " ", "b">>
                        => Last(inflight') =
                               Request("ext", <<>>, <<"s", "y", "s">>, <<"l", "s">>,
                                       << <<"a">>, <<"b">> >>))
      ]_vars

\* C15 without its last sentence: the classification of the shapes the
\* claim lists
C15_ClassificationOfListedShapes ==
    [][ lastInput' # <<>>
          => LET input == TrimSpace(lastInput')
                 body  == Tail(input)
             IN  /\ (input = SummarizeCmd <=> lastMsg' = "KeyEnter:summarize")
                 /\ (IsCommand(input) /\ FirstWord(body) = <<"h", "e", "l", "p">>
                        <=> lastMsg' = "KeyEnter:help")
                 /\ (IsCommand(input) /\ input # SummarizeCmd
                         /\ FirstWord(body) # <<"h", "e", "l", "p">>
                         /\ IndexOf(body, " ") = 0
                        <=> lastMsg' = "KeyEnter:missingCommand")
                 /\ (~IsCommand(input) <=> lastMsg' = "KeyEnter:chat")
                 /\ (input = <<"/", "s", "y", "s", " ", "l", "s", " ", "a", " ", "b">>
                        => Last(inflight') =
                               Request("ext", <<>>, <<"s", "y", "s">>, <<"l", "s">>,
                                       << <<"a">>, <<"b">> >>))
      ]_vars

\* C16: no input classified as a command is ever in the log as a user
\* message, passed to the persistence collaborator, or the prompt of a chat
\* request
C16_CommandsNeverChat ==
    /\ \A i \in 1..Len(messages) :
           messages[i].IsUser => ~IsCommand(messages[i].Content)
    /\ \A i \in 1..Len(dbCalls) : ~IsCommand(dbCalls[i][2])
    /\ \A i \in 1..Len(inflight) :
           inflight[i].kind = "llm" => ~IsCommand(inflight[i].prompt)
    /\ lastInput # <<>> /\ IsCommand(TrimSpace(lastInput)) => lastMsg # "KeyEnter:chat"

\* a command with arguments was accepted in a session that also holds a
\* chat message, which was persisted
C16_Witness ==
    /\ lastMsg = "KeyEnter:extension"
    /\ lastInput = <<"/", "s", "y", "s", " ", "l", "s", " ", "'", "a", " ", "b", "'", " ", "c">>
    /\ \E i \in 1..Len(messages) : messages[i].IsUser
    /\ Len(dbCalls) > 0
    /\ Len(inflight) = 1

Quotes == {"'", "\""}

\* a space of s outside quotes: an even number of quote characters precedes it
IsSeparator(s, i) ==
    s[i] = " " /\ Cardinality({j \in 1..(i - 1) : s[j] \in Quotes}) % 2 = 0

\* the characters lo..hi of s without the quote characters
Unquoted(s, lo, hi) == SelectSeq(SubSeq(s, lo, hi), LAMBDA c : c \notin Quotes)

\* the first separator of s at or after lo, Len(s) + 1 when there is none
NextSeparator(s, lo) ==
    IF \E i \in lo..Len(s) : IsSeparator(s, i)
    THEN CHOOSE i \in lo..Len(s) :
             IsSeparator(s, i) /\ \A j \in lo..(i - 1) : ~IsSeparator(s, j)
    ELSE Len(s) + 1

\* the tokens of s from lo on: the non-empty stretches between separators,
\* quote characters removed
RECURSIVE Tokens(_, _)
Tokens(s, lo) ==
    IF lo > Len(s)
    THEN <<>>
    ELSE (IF Unquoted(s, lo, NextSeparator(s, lo) - 1) # <<>>
          THEN <<Unquoted(s, lo, NextSeparator(s, lo) - 1)>>
          ELSE <<>>)
         \o Tokens(s, NextSeparator(s, lo) + 1)

\* C17: splitArgs returns the tokens of its argument: a quote character of
\* either kind toggles the inside-quotes mode, a space outside quotes ends
\* the token, quote characters are in no token, the last token is returned
\* even when a quote is unterminated, and no token is empty; in particular
\* a "b c" d gives [a, b c, d], the empty string gives [], a "b gives [a, b]
C17_SplitArgs ==
    splitCall.state = "returned"
      => /\ splitCall.args = Tokens(splitCall.s, 1)
         /\ \A i \in 1..Len(splitCall.args) :
                /\ splitCall.args[i] # <<>>
                /\ \A j \in 1..Len(splitCall.args[i]) : splitCall.args[i][j] \notin Quotes
         /\ (splitCall.s = <<"a", " ", "\"", "b", " ", "c", "\"", " ", "d">>
               => splitCall.args = << <<"a">>, <<"b", " ", "c">>, <<"d">> >>)
         /\ (splitCall.s = <<>> => splitCall.args = <<>>)
         /\ (splitCall.s = <<"a", " ", "\"", "b">>
               => splitCall.args = << <<"a">>, <<"b">> >>)

\* the call on a "b, with its unterminated quote, has returned [a, b]
C17_Witness ==
    /\ splitCall.state = "returned"
    /\ splitCall.s = <<"a", " ", "\"", "b">>
    /\ splitCall.args = << <<"a">>, <<"b">> >>

\* whether the maps of m hold the extension, and the command of it
HasExtension(m, extName) == \E e \in m.extensions : e[1] = extName

HasCommand(m, extName, cmdName) ==
    \E c \in m.commands : c[1] = extName /\ c[2] = cmdName

\* C18: ExecuteCommand on a disabled manager fails with the
\* extensions-disabled error for every pair of names and invokes no command;
\* on an enabled manager an unregistered extension name gives
\* extension-not-found, a registered extension with an unregistered command
\* name gives command-not-found, and only otherwise is Execute invoked
C18_ExecutePrecedence ==
    mgrCall.op = "ExecuteCommand"
      => /\ (~manager.enabled
               => mgrCall.err = <<"extensions are disabled">>)
         /\ (manager.enabled /\ ~HasExtension(manager, mgrCall.extName)
               => mgrCall.err = <<"extension '%s' not found", mgrCall.extName>>)
         /\ (manager.enabled /\ HasExtension(manager, mgrCall.extName)
                 /\ ~HasCommand(manager, mgrCall.extName, mgrCall.cmdName)
               => mgrCall.err = <<"command '%s' not found in extension '%s'",
                                  mgrCall.cmdName, mgrCall.extName>>)
         /\ (mgrCall.executed # <<>>
               <=> /\ manager.enabled
                   /\ HasExtension(manager, mgrCall.extName)
                   /\ HasCommand(manager, mgrCall.extName, mgrCall.cmdName))

\* a command name the registered system extension does not have was asked
\* for, on an enabled manager
C18_Witness ==
    /\ mgrCall.op = "ExecuteCommand"
    /\ manager.enabled
    /\ mgrCall.extName = "system" /\ mgrCall.cmdName = "add"
    /\ HasExtension(manager, "notes")
    /\ mgrCall.err = <<"command '%s' not found in extension '%s'", "add", "system">>
    /\ mgrCall.executed = <<>>

\* the methods called after startup
ReadMethods ==
    {"ExecuteCommand", "GetExtension", "GetCommands", "ListExtensions", "IsEnabled"}

\* C19: ExecuteCommand, GetExtension, GetCommands, ListExtensions and
\* IsEnabled leave the extensions map and the commands maps as they are, and
\* an ExecuteCommand that reaches a command invokes the Execute of the
\* command registered under the two names exactly once, with the given
\* args, and returns what it returned, result or error
C19_RegistryReadOnly ==
    [][ mgrCall'.op \in ReadMethods
          => /\ manager' = manager
             /\ (mgrCall'.op = "ExecuteCommand" /\ manager.enabled
                     /\ HasCommand(manager, mgrCall'.extName, mgrCall'.cmdName)
                     /\ HasExtension(manager, mgrCall'.extName)
                   => /\ Len(mgrCall'.executed) = 1
                      /\ <<mgrCall'.executed[1][1], mgrCall'.executed[1][2],
                           mgrCall'.executed[1][3]>> \in manager.commands
                      /\ mgrCall'.executed[1][1] = mgrCall'.extName
                      /\ mgrCall'.executed[1][2] = mgrCall'.cmdName
                      /\ mgrCall'.executed[1][4] = mgrCall'.args
                      /\ [result |-> mgrCall'.result, err |-> mgrCall'.err]
                             \in CommandOutcomes)
      ]_vars

\* the ls command a plugin registered over the built-in one was run with an
\* argument and returned its error
C19_Witness ==
    /\ mgrCall.op = "ExecuteCommand"
    /\ mgrCall.executed = << <<"system", "ls", "b.so", <<"x">> >> >>
    /\ mgrCall.err = <<"command failed">>
    /\ HasExtension(manager, "notes")

\* C20: LoadExtensions on a disabled manager returns no error and leaves
\* both maps empty, so a manager created disabled never lists an extension
C20_DisabledLoadIsNoOp ==
    ~manager.enabled
      => /\ manager.extensions = {} /\ manager.commands = {}
         /\ (mgrCall.op = "LoadExtensions" => mgrCall.err = NoError)
         /\ (mgrCall.op = "ListExtensions" => mgrCall.extensions = {})
         /\ (mgrCall.op = "GetCommands" => mgrCall.commands = {})

\* LoadExtensions has returned on a disabled manager
C20_Witness ==
    /\ mgrCall.op = "LoadExtensions"
    /\ startup = "loaded"
    /\ ~manager.enabled
    /\ manager.extensions = {}
    /\ mgrCall.err = NoError

\* the maps after LoadSimpleExtensions alone
BuiltinsOnly ==
    [extensions |-> {<<"system", "builtin">>},
     commands |-> {<<"system", cmd, "builtin">> : cmd \in {"ls", "pwd", "read"}},
     enabled |-> TRUE]

\* C21: LoadExtensions on an enabled manager registers the built-in system
\* provider with exactly ls, pwd and read before any external provider, and
\* they stay registered and executable whatever the directory scan meets:
\* no home directory, directory absent, directory unreadable, no bundle, or
\* every bundle failing to load
C21_BuiltinsAlwaysLoaded ==
    /\ (mgrCall.op = "LoadExtensions" /\ manager.enabled
            /\ (mgrCall.env.home = "error" \/ mgrCall.env.dir # "exists"
                   \/ mgrCall.env.loadable = {})
          => manager = BuiltinsOnly)
    /\ (manager.enabled /\ startup # "created"
          => /\ HasExtension(manager, "system")
             /\ (<<"system", "builtin">> \in manager.extensions
                   => {c \in manager.commands : c[1] = "system"} = BuiltinsOnly.commands)
             /\ (<<"system", "builtin">> \notin manager.extensions
                   => <<"system", "b.so">> \in manager.extensions))
    /\ (mgrCall.op = "ExecuteCommand" /\ manager = BuiltinsOnly
            /\ mgrCall.extName = "system" /\ mgrCall.cmdName \in {"ls", "pwd"}
          => mgrCall.executed
                 = << <<"system", mgrCall.cmdName, "builtin", mgrCall.args>> >>)

\* the directory could not be read, and the built-in provider is registered
C21_Witness ==
    /\ mgrCall.op = "LoadExtensions"
    /\ manager.enabled
    /\ mgrCall.env.home = "ok" /\ mgrCall.env.dir = "read error"
    /\ mgrCall.err = <<"failed to read extensions directory">>
    /\ manager = BuiltinsOnly

\* what the Extension and Command interfaces ask of a method
ReturnsString(method) ==
    method.declared /\ Len(method.results) >= 1 /\ method.results[1].kind = "string"

ReturnsSequence(method) ==
    method.declared /\ Len(method.results) >= 1 /\ method.results[1].kind = "slice"

ExecutesAsCommand(method) ==
    method.declared /\ method.params = <<"[]string">> /\ ReturnsString(method)

\* the command names a file has registered
RegisteredBy(m, file) == {c[2] : c \in {d \in m.commands : d[3] = file}}

\* C22: a provider that fails a capability probe (Name or Description
\* missing or not returning a string, Commands missing or not returning a
\* sequence) is skipped: LoadExtension returns an error, the registry stays
\* as it was, and LoadExtensions goes on with the next file.
C22_FailingProviderSkipped ==
    [][ \A bundle \in Bundles :
            LoadFile(bundle) /\ ~mgrCall'.panic
                /\ (\/ ~ReturnsString(bundle.value.Name)
                    \/ ~ReturnsString(bundle.value.Description)
                    \/ ~ReturnsSequence(bundle.value.Commands))
            => mgrCall'.err # NoError /\ manager' = manager /\ startup' = "loading"
      ]_vars

\* the part of C22 that holds: the probes of Name and Description, and a
\* missing Commands method
C22_SkippedOnNameDescriptionOrMissingCommands ==
    [][ \A bundle \in Bundles :
            LoadFile(bundle) /\ ~mgrCall'.panic
                /\ (\/ ~ReturnsString(bundle.value.Name)
                    \/ ~ReturnsString(bundle.value.Description)
                    \/ ~bundle.value.Commands.declared)
            => mgrCall'.err # NoError /\ manager' = manager /\ startup' = "loading"
      ]_vars

\* C23: of the command handles of a provider that loads, the ones with Name,
\* Description and Execute as the Command interface has them are registered,
\* and no other.
C23_OnlyWellFormedCommandsRegistered ==
    [][ \A bundle \in Bundles :
            LoadFile(bundle) /\ ~mgrCall'.panic /\ mgrCall'.err = NoError
            => LET handles == bundle.value.Commands.results[1].items
               IN  RegisteredBy(manager', bundle.file) =
                       { handles[i].Name.results[1].str :
                             i \in { j \in 1..Len(handles) :
                                         /\ ReturnsString(handles[j].Name)
                                         /\ ReturnsString(handles[j].Description)
                                         /\ ExecutesAsCommand(handles[j].Execute) } }
      ]_vars

\* the part of C23 that holds: handles failing the probe of Name or of
\* Description are left out, the others of the same provider are registered
C23_NameAndDescriptionProbed ==
    [][ \A bundle \in Bundles :
            LoadFile(bundle) /\ ~mgrCall'.panic /\ mgrCall'.err = NoError
            => LET handles == bundle.value.Commands.results[1].items
               IN  RegisteredBy(manager', bundle.file) =
                       { handles[i].Name.results[1].str :
                             i \in { j \in 1..Len(handles) :
                                         /\ ReturnsString(handles[j].Name)
                                         /\ ReturnsString(handles[j].Description) } }
      ]_vars

\* C24: no operation of the adapter panics: LoadExtension,
\* ExtensionWrapper.Commands and CommandWrapper.Execute return a value or an
\* error whatever the plugin's methods are.
C24_AdapterNeverPanics ==
    mgrCall.op \in {"LoadExtension", "Commands", "ExecuteCommand"} => ~mgrCall.panic

\* the entries of PluginFiles that a scan loads and that report a name
LoadedAs(env, name) ==
    {i \in 1..Len(PluginFiles) :
         PluginFiles[i].file \in env.loadable /\ PluginFiles[i].name = name}

\* C25: registration is keyed by the provider's name and the last
\* registration wins: after a scan, a name some loaded file reports has the
\* entry and the whole command map of the last such file, and only those
\* commands dispatch; an external provider named system replaces the
\* built-in one with all its commands.
C25_LastRegistrationWins ==
    (mgrCall.op = "LoadExtensions" /\ manager.enabled
         /\ mgrCall.env.home = "ok" /\ mgrCall.env.dir = "exists")
    => \A name \in {"system", "notes"} :
           /\ Cardinality({e \in manager.extensions : e[1] = name}) <= 1
           /\ LoadedAs(mgrCall.env, name) # {}
              => LET last == PluginFiles[CHOOSE i \in LoadedAs(mgrCall.env, name) :
                                             \A j \in LoadedAs(mgrCall.env, name) : j <= i]
                 IN  /\ <<name, last.file>> \in manager.extensions
                     /\ {c \in manager.commands : c[1] = name}
                            = {<<name, cmd, last.file>> : cmd \in last.cmds}
                     /\ \A cmd \in {"ls", "pwd", "read", "add", "del"}, args \in ArgLists,
                           outcome \in CommandOutcomes :
                            ExecuteCommandResult(manager, name, cmd, args, outcome).executed
                                = IF cmd \in last.cmds
                                  THEN << <<name, cmd, last.file, args>> >>
                                  ELSE <<>>

C25_Witness ==
    /\ mgrCall.op = "LoadExtensions"
    /\ mgrCall.env = [home |-> "ok", dir |-> "exists", loadable |-> {"a.so", "b.so", "c.so"}]
    /\ manager.extensions = {<<"system", "b.so">>, <<"notes", "c.so">>}
    /\ manager.commands = {<<"system", "ls", "b.so">>, <<"notes", "del", "c.so">>}

\* C26: the built-in read returns the exact content of a readable file of at
\* most 1048576 bytes with no error, returns an error and the empty string
\* for a larger one, and without a path argument returns an error and reads
\* nothing.
C26_ReadSizeLimit ==
    mgrCall.op = "read"
    => /\ Len(mgrCall.args) = 0
          => mgrCall.err # NoError /\ mgrCall.result = EmptyString /\ mgrCall.read = <<>>
       /\ (Len(mgrCall.args) > 0 /\ mgrCall.fs[mgrCall.args[1]].err = NoError)
          => LET content == mgrCall.fs[mgrCall.args[1]].content
             IN  /\ content.len <= 1048576
                    => mgrCall.result = content /\ mgrCall.err = NoError
                 /\ content.len > 1048576
                    => mgrCall.result = EmptyString /\ mgrCall.err # NoError

C26_Witness ==
    /\ mgrCall.op = "read"
    /\ mgrCall.args = <<"a", "b">>
    /\ mgrCall.fs["a"] = ReadableFile(Content(1048576, 97))
    /\ mgrCall.result = Content(1048576, 97)
    /\ mgrCall.err = NoError

\* C27: the AddMessage calls are, in order, one with role user for each user
\* chat message, made in the step that submits it and issues its LLM
\* request, and one with role assistant for each successful LLM response
\* that is not a summary, made in the step that applies it; no other step
\* makes a call.
C27_PersistedCalls ==
    /\ dbCalls = <<>>
    /\ [][ dbCalls' =
               IF Len(messages') = Len(messages) + 1 /\ Last(messages').IsUser
               THEN Append(dbCalls, <<"user", Last(messages').Content>>)
               ELSE IF lastMsg' = "llmResponse" /\ lastResult'.err = NoError
                          /\ ~lastResult'.isSystemResponse
                    THEN Append(dbCalls, <<"assistant", lastResult'.response>>)
                    ELSE dbCalls
         ]_vars
    /\ [][ (Len(messages') = Len(messages) + 1 /\ Last(messages').IsUser)
               => /\ Len(inflight') = Len(inflight) + 1
                  /\ Last(inflight').kind = "llm"
                  /\ Last(inflight').prompt = Last(dbCalls')[2]
         ]_vars

C27_Witness ==
    /\ lastMsg = "llmResponse"
    /\ lastResult.err = NoError
    /\ Len(dbCalls) = 2
    /\ dbCalls[1][1] = "user"
    /\ dbCalls[2] = <<"assistant", Last(messages).Content>>
    /\ \E i \in 1..Len(messages) : messages[i].IsSystem

\* C28: a step that calls the persistence collaborator leaves the log, the
\* flags, the requests issued and the ticks scheduled as the event alone
\* determines them, whatever the call returned; a failure shows in m.err
\* only.
C28_PersistenceFailureKeepsFlow ==
    [][ dbCalls' # dbCalls
          => LET content == Last(dbCalls')[2]
             IN  /\ Last(dbCalls')[1] = "user"
                    => /\ messages' = Append(messages,
                                             Message(content, content, TRUE, TRUE, FALSE))
                       /\ waitingForResp' = TRUE
                       /\ typingActive' = typingActive
                       /\ inflight' = Append(inflight,
                                             Request("llm", content, <<>>, <<>>, <<>>))
                       /\ typingTicks' = typingTicks
                       /\ err' \in {err, SaveFailedPrefix \o ErrDatabase,
                                    TitleFailedPrefix \o ErrDatabase}
                 /\ Last(dbCalls')[1] = "assistant"
                    => /\ messages' = Append(messages,
                                             Message(content, <<>>, FALSE, FALSE, FALSE))
                       /\ waitingForResp' = FALSE
                       /\ typingActive' = TRUE
                       /\ \E i \in 1..Len(inflight) :
                              inflight[i].kind = "llm" /\ inflight' = RemoveAt(inflight, i)
                       /\ typingTicks' = typingTicks + 1
                       /\ err' \in {err, SaveFailedPrefix \o ErrDatabase}
                 /\ thinkingTicks' = thinkingTicks
                 /\ thinkingDots' = thinkingDots
                 /\ quitting' = quitting
      ]_vars

\* AddMessage failed for the first user message and the request was issued
C28_Witness ==
    /\ lastMsg = "KeyEnter:chat"
    /\ Len(dbCalls) = 1
    /\ err = SaveFailedPrefix \o ErrDatabase
    /\ waitingForResp
    /\ Len(inflight) = 1
    /\ inflight[1].kind = "llm"
    /\ Last(messages).IsUser

\* C29: in a session that started without stored messages, GenerateTitle has
\* been called once if a user chat message has been submitted, whatever came
\* before it, and not at all otherwise.
C29_TitleOnFirstUserMessage ==
    messages[1].Content = WelcomeText
    => titleCalls = IF \E i \in 1..Len(dbCalls) : dbCalls[i][1] = "user" THEN 1 ELSE 0

\* the part of C29 that holds: GenerateTitle is called at most once, in the
\* step that submits a user chat message and makes the log two messages long
C29_AtMostOneTitle ==
    /\ titleCalls = 0
    /\ [][ /\ titleCalls' <= 1
           /\ titleCalls' # titleCalls
              => /\ Len(messages') = 2
                 /\ messages'[2].IsUser
                 /\ Last(dbCalls') = <<"user", messages'[2].Content>>
         ]_vars

\* the placeholder /summarize appends
Placeholder == Message(GeneratingText, GeneratingText, FALSE, TRUE, TRUE)

\* C30: /summarize appends the complete system placeholder, sets
\* waitingForResp and issues one summary request; a successful summary
\* response overwrites the placeholder when it is the trailing message,
\* leaving every other message as it was, and is appended as a new
\* incomplete system message otherwise; either way typingActive is set.
C30_SummaryFlow ==
    [][ /\ lastMsg' = "KeyEnter:summarize"
           => /\ messages' = Append(messages, Placeholder)
              /\ waitingForResp'
              /\ Len(inflight') = Len(inflight) + 1
              /\ SubSeq(inflight', 1, Len(inflight)) = inflight
              /\ Last(inflight').kind = "summary"
        /\ (lastMsg' = "llmResponse" /\ lastResult'.isSystemResponse
                /\ lastResult'.err = NoError)
           => /\ messages' =
                    IF Last(messages) = Placeholder
                    THEN [messages EXCEPT ![Len(messages)] =
                              Message(lastResult'.response, <<>>, FALSE, FALSE, TRUE)]
                    ELSE Append(messages,
                                Message(lastResult'.response, <<>>, FALSE, FALSE, TRUE))
              /\ typingActive'
      ]_vars

\* the part of C30 that holds: the /summarize step, and a summary response
\* that meets the placeholder or a message that is not a system message at
\* the end of the log
C30_SummaryFlowOnPlaceholder ==
    [][ /\ lastMsg' = "KeyEnter:summarize"
           => /\ messages' = Append(messages, Placeholder)
              /\ waitingForResp'
              /\ Len(inflight') = Len(inflight) + 1
              /\ SubSeq(inflight', 1, Len(inflight)) = inflight
              /\ Last(inflight').kind = "summary"
        /\ (lastMsg' = "llmResponse" /\ lastResult'.isSystemResponse
                /\ lastResult'.err = NoError
                /\ (Last(messages) = Placeholder \/ ~Last(messages).IsSystem))
           => /\ messages' =
                    IF Last(messages) = Placeholder
                    THEN [messages EXCEPT ![Len(messages)] =
                              Message(lastResult'.response, <<>>, FALSE, FALSE, TRUE)]
                    ELSE Append(messages,
                                Message(lastResult'.response, <<>>, FALSE, FALSE, TRUE))
              /\ typingActive'
      ]_vars

\* message i of the log is after the step what it was before it, up to the
\* reveal of an incomplete message by a typing tick
KeptOrRevealed(i) ==
    /\ messages'[i].Content = messages[i].Content
    /\ messages'[i].IsUser = messages[i].IsUser
    /\ messages'[i].IsSystem = messages[i].IsSystem
    /\ messages'[i] # messages[i] => lastMsg' = "typingMsg" /\ ~messages[i].IsComplete

\* C31: no step makes the log shorter, and every message other than the
\* summary placeholder keeps its position, content, isUser and isSystem;
\* visibleContent and isComplete change only for an incomplete message and
\* only in a typing tick.
C31_MessagesNeverDeleted ==
    [][ /\ Len(messages') >= Len(messages)
        /\ \A i \in 1..Len(messages) :
               messages[i] # Placeholder => KeptOrRevealed(i)
      ]_vars

\* the part of C31 that holds: the log never gets shorter, and a message is
\* kept unless it is the trailing system message a summary overwrites
C31_KeptUnlessSummaryOverwrites ==
    [][ /\ Len(messages') >= Len(messages)
        /\ \A i \in 1..Len(messages) : KeptOrRevealed(i) \/ SummaryOverwrites(i)
      ]_vars

\* C32: a quit key is handled in every state of a running session, whatever
\* the flags and whatever is in flight; the step sets quitting, appends no
\* message, issues no request, schedules no tick and leaves waitingForResp
\* and typingActive alone; after it no event is handled.
C32_QuitInAnyState ==
    /\ []((~quitting /\ ~entry.panicked) => ENABLED (KeyQuit /\ SessionStep))
    /\ [][ /\ ~quitting
           /\ lastMsg' = "KeyQuit"
              => /\ quitting'
                 /\ UNCHANGED <<messages, inflight, waitingForResp, typingActive,
                                typingTicks, thinkingTicks, dbCalls, titleCalls>>
         ]_vars

\* C32, witness: the quit key came during a reveal with a request in flight
C32_Witness ==
    /\ lastMsg = "KeyQuit"
    /\ quitting
    /\ typingActive
    /\ typingTicks >= 1
    /\ Len(inflight) >= 1

\* the messages a session started with: one in a fresh session, the
\* welcome-back message and the stored ones in a continued session
Restored == IF entry.loaded > 0 THEN entry.loaded ELSE 1

\* C33: a new session is idle with thinkingDots = 1; the log of a fresh
\* session is one complete welcome message that is not the user's; the log
\* of a continued session is the restored messages in stored order, each
\* complete and fully visible; and no step, a typing tick least of all,
\* changes a restored message.
C33_InitialState ==
    /\ ~waitingForResp /\ ~typingActive /\ thinkingDots = 1
    /\ \/ messages = << [Content |-> WelcomeText, VisibleContent |-> WelcomeText,
                         IsUser |-> FALSE, IsComplete |-> TRUE, IsSystem |-> FALSE] >>
       \/ \E st \in StoredConversations :
              /\ Len(messages) = 1 + Len(st)
              /\ messages[1].Content = WelcomeBackText
              /\ \A i \in 1..Len(st) :
                     /\ messages[i + 1].Content = st[i][2]
                     /\ messages[i + 1].IsUser = (st[i][1] = "user")
              /\ \A i \in 1..Len(messages) :
                     /\ messages[i].IsComplete
                     /\ messages[i].VisibleContent = messages[i].Content
    /\ [][ \A i \in 1..Restored :
               /\ messages[i].IsComplete
               /\ messages'[i] = messages[i]
         ]_vars

\* C33, witness: in a continued session a typing tick has revealed a part of
\* a message that came after the restored ones
C33_Witness ==
    /\ entry.command = "chat --continue"
    /\ messages[1].Content = WelcomeBackText
    /\ messages[2].Content = <<"h", "i">>
    /\ Len(messages) = 4
    /\ ~messages[4].IsUser
    /\ lastMsg = "typingMsg"
    /\ revealTicks >= 1

\* C34: whenever typingActive is true, the last message of the log is an
\* incomplete message that is not the user's, and a typing tick is scheduled.
C34_TypingHasTarget ==
    typingActive
    => /\ ~Last(messages).IsUser
       /\ ~Last(messages).IsComplete
       /\ typingTicks >= 1

\* C35: the session never locks up: once every request in flight has
\* delivered its result and every scheduled typing tick has been handled,
\* waitingForResp and typingActive are false, so that Enter is accepted.
\* (With nothing in flight and no typing tick left, only key presses,
\* resizes and thinking ticks remain, and none of them clears a flag.)
C35_NeverLocksUp ==
    (~quitting /\ inflight = <<>> /\ typingTicks = 0)
        => ~waitingForResp /\ ~typingActive

\* in the locked state no event that can still come clears typingActive
C35_LockedForGood ==
    [][ (inflight = <<>> /\ typingTicks = 0 /\ typingActive)
          => (typingActive' /\ inflight' = <<>> /\ typingTicks' = 0
                /\ messages' = messages)
      ]_vars

\* C36: while a chat or summary request is in flight, waitingForResp is
\* true: no event other than the result of that request clears it.
C36_WaitingWhileLlmInFlight ==
    (\E i \in 1..Len(inflight) : inflight[i].kind \in {"llm", "summary"})
        => waitingForResp

\* the part of C36 that holds: ticks, resizes and key presses never clear
\* waitingForResp
C36_OnlyResultsClearWaiting ==
    [][ (waitingForResp /\ ~waitingForResp')
          => lastMsg' \in {"llmResponse", "extCommandResponse"} ]_vars

\* C37: at most one typing tick is scheduled at any time; one is scheduled
\* only by a result that starts a reveal or by a handled tick that leaves
\* the message partly hidden; a typing tick handled while typingActive is
\* false changes no message and schedules nothing.
C37_OneTypingTick ==
    /\ typingTicks = 0
    /\ [][ /\ typingTicks' <= 1
           /\ typingTicks' > typingTicks
              => /\ lastMsg' \in {"llmResponse", "extCommandResponse"}
                 /\ lastResult'.err = NoError
                 /\ ~Last(messages').IsComplete
           /\ (lastMsg' = "typingMsg" /\ typingTicks' = typingTicks)
              => /\ Len(Last(messages').VisibleContent) < Len(Last(messages').Content)
                 /\ Len(Last(messages').VisibleContent)
                        > Len(Last(messages).VisibleContent)
           /\ (lastMsg' = "typingMsg" /\ ~typingActive)
              => messages' = messages /\ typingTicks' = typingTicks - 1
         ]_vars

\* the part of C37 that holds: everything but the bound of one
C37_TypingTickScheduling ==
    /\ typingTicks = 0
    /\ [][ /\ typingTicks' > typingTicks
              => /\ lastMsg' \in {"llmResponse", "extCommandResponse"}
                 /\ lastResult'.err = NoError
                 /\ ~Last(messages').IsComplete
           /\ (lastMsg' = "typingMsg" /\ typingTicks' = typingTicks)
              => /\ Len(Last(messages').VisibleContent) < Len(Last(messages').Content)
                 /\ Len(Last(messages').VisibleContent)
                        > Len(Last(messages).VisibleContent)
           /\ (lastMsg' = "typingMsg" /\ ~typingActive)
              => messages' = messages /\ typingTicks' = typingTicks - 1
         ]_vars


\* C38: every command that starts an interactive session (chat, chat
\* --continue, ask -i) has set the tui package's extension manager reference
\* before the session handles input, so a /help or /<ext> <cmd> submission
\* always ends in an extCommandResponse event and never in a nil dereference
C38_ManagerSetOnEveryEntry ==
    entry.command \in {"chat", "chat --continue", "ask -i"}
      => ~entry.panicked

\* the reference is set in every session
C38_ReferenceSet ==
    entry.command \in {"chat", "chat --continue", "ask -i"}
      => entry.extManager = "set"

\* mcg chat, "/help" submitted, and the help command has dereferenced the nil
\* manager
C38_HelpPanicsAfterChat ==
    /\ entry.command = "chat"
    /\ entry.extManager = "nil"
    /\ entry.panicked
    /\ Len(inflight) = 1
    /\ inflight[1].kind = "help"
    /\ lastMsg = "panic"

\* after ask -i the reference is set and the command's result is delivered
C38_DeliveredAfterAsk ==
    entry.command = "ask -i"
      => /\ entry.extManager = "set"
         /\ ~entry.panicked

C38_AskWitness ==
    /\ entry.command = "ask -i"
    /\ lastMsg = "extCommandResponse"
    /\ lastResult # NoResult

\* the user messages and the assistant responses of a log, in log order:
\* every message but the welcome message at the head and the system messages
RECURSIVE Conversation(_, _)
Conversation(log, i) ==
    IF i > Len(log)
    THEN <<>>
    ELSE (IF log[i].IsSystem \/ i = 1
          THEN <<>>
          ELSE (IF log[i].IsUser
                THEN <<"U", "s", "e", "r", ":", " ">>
                ELSE <<"A", "s", "s", "i", "s", "t", "a", "n", "t", ":", " ">>)
               \o log[i].Content \o <<"\n", "\n">>)
         \o Conversation(log, i + 1)

\* C39: the summary prompt built by getSummary holds, in log order, exactly
\* the user messages and the assistant responses of the conversation as it
\* is when /summarize is submitted: the welcome message, every system
\* message and the trailing placeholder are left out
C39_SummaryPrompt ==
    [][ lastMsg' = "KeyEnter:summarize"
          => inflight'[Len(inflight')].prompt = Conversation(messages, 1) ]_vars

\* "/summarize" submitted first in a fresh session: the prompt holds the
\* welcome message as an assistant response
C39_WelcomeInPrompt ==
    /\ lastMsg = "KeyEnter:summarize"
    /\ Len(messages) = 2
    /\ messages[1].Content = WelcomeText
    /\ inflight[Len(inflight)].kind = "summary"
    /\ inflight[Len(inflight)].prompt =
           <<"A", "s", "s", "i", "s", "t", "a", "n", "t", ":", " ">>
               \o WelcomeText \o <<"\n", "\n">>

\* what the prompt does hold: the head of the log as an assistant response,
\* then the user messages and the assistant responses
C39_PromptWithHead ==
    [][ lastMsg' = "KeyEnter:summarize"
          => inflight'[Len(inflight')].prompt =
                 <<"A", "s", "s", "i", "s", "t", "a", "n", "t", ":", " ">>
                     \o messages[1].Content \o <<"\n", "\n">>
                     \o Conversation(messages, 1) ]_vars
====
